---- MODULE Spec2Model ----
(***************************************************************************)
(* A state-machine model of cfy_cluster_manager/main.py: the `install`     *)
(* command (validation, topology building, resume-discovery, staging, the  *)
(* install-and-verify loop) together with the remote hosts it drives.      *)
(*                                                                         *)
(* Remote hosts are the environment.  A host holds the installable package *)
(* (rpm), and per role one systemd unit (its `systemctl status` code) and  *)
(* one completion marker (/etc/cloudify/.installed/<service>).  The effect *)
(* of the remote commands on that state is the one the commands document:  *)
(* `cfy_manager remove` deletes the role's marker, `systemctl              *)
(* reset-failed` forgets a failed unit, `yum remove` / `yum install`       *)
(* delete / add the package.  The outcome of `cfy_manager install` and the *)
(* moment a running unit ends are chosen by the environment.               *)
(***************************************************************************)
EXTENDS Integers, Sequences, FiniteSets, TLC

VARIABLES
    \* ---- inputs of install(config_path, override, only_validate, verbose)
    config,                 \* the loaded cluster configuration document
    override,
    only_validate,
    \* ---- the machine the tool runs on
    local_host,             \* index of the declared vm whose private_ip is
                            \* current_host_ip(), 0 when it is none of them
    local_installed_dir,    \* isdir(INITIAL_INSTALL_DIR) when local_host = 0
    installed_at_start,     \* <<vm, role>> installed when the run begins
    \* ---- the remote hosts (environment)
    rpm,                    \* vm -> "absent" | "match" | "differ"
    unit,                   \* vm -> role -> systemctl status code
    marker,                 \* vm -> role -> completion marker exists
    frozen,                 \* TRUE: no running unit ends during the run
    \* ---- the program
    pc,                     \* position in install()
    error,                  \* the exception that ended the run, or "none"
    errors_list,            \* _validate_config's errors_list
    credentials_file,       \* the credentials secret_credentials.yaml holds
    instances_dict,         \* <<[type, nodes]>>: the ordered dictionary
    validate_connection,    \* _generate_three_nodes_cluster_dict's flag
    ti, ni,                 \* topology building: tier, declared vm
    cur,                    \* discovery and install loops: the node reached
    previous_installation,
    status_code,            \* last status code read for the current node
    retry_count,            \* _wait_for_cloudify_current_installation
    \* ---- observation of what the run did
    conn_tests,             \* vm -> number of test_connection calls
    remote_touched,         \* some remote connection or command was made
    staging,                \* what was written under CLUSTER_INSTALL_DIR
    probed,                 \* nodes queried by resume-discovery, in order
    removed,                \* nodes removed by _remove_cloudify_installation
    failed_removed,         \* nodes whose failed installation was removed
    launched,               \* nodes whose install command was started
    uploaded,               \* vms the staging directory was put on
    issued,                 \* <<node, command>> sent by the install loop
    marker_seen,            \* nodes whose completion marker was seen
    silent,                 \* nodes launched, unit gone, marker not seen
    code3_seen,             \* [node, at]: status code 3 read in discovery,
                            \* at the "first" query or at the "requery"
    polls,                  \* status polls of the current wait loop
    round,                  \* number of the resume-discovery pass
    first_pass,             \* installed flags at the end of the first pass
    \* ---- generate_config(output_path, verbose, using_three_nodes,
    \*      using_nine_nodes, using_external_db)
    gen,                    \* the call, the output path on disk, the answer
    \* ---- VM.test_connection(connection), VM.run_command(command,
    \*      hide_stdout, use_sudo)
    connections,            \* the state of each Connection constructed
    call,                   \* the call being made and how it ended
    \* ---- run(command, retries, ignore_failures)
    local_run               \* the arguments of the call being made, the
                            \* return codes so far, how the call ended

vars == <<config, override, only_validate, local_host, local_installed_dir,
          installed_at_start, rpm, unit, marker, frozen, pc, error, errors_list,
          credentials_file, instances_dict, validate_connection, ti, ni,
          cur, previous_installation, status_code, retry_count, conn_tests,
          remote_touched, staging, probed, removed, failed_removed,
          launched, uploaded, issued, marker_seen, silent, code3_seen, polls,
          round,
          first_pass, gen, connections, call, local_run>>

----------------------------------------------------------------------------
(* Program constants *)

\* while status_code == 0 and retry_count <= 600 / if retry_count > 600
WaitLimit == 600
\* using_three_nodes_cluster = (len(config.get('existing_vms')) == 3)
ThreeNodes == 3

(* Bounds of the model *)

\* calls of VM.test_connection and VM.run_command in a row
MaxCalls == 3
\* largest retries argument of run
MaxRetries == 3
\* longest declared instance list of a general-mode configuration
MaxGeneralVMs == 4
\* installs of one run that end with the unit gone and no marker written
MaxSilent == 1

Roles == <<"postgresql", "rabbitmq", "manager">>
RoleSet == {"postgresql", "rabbitmq", "manager"}

\* systemctl status codes: 0 running, 3 failed, 4 no such unit; 1 stands
\* for any other code

----------------------------------------------------------------------------
(* Strings of digits: str() and int() as Python computes them *)

RECURSIVE int(_)
int(digits) ==
    IF digits = <<>> THEN 0
    ELSE 10 * int(SubSeq(digits, 1, Len(digits) - 1)) + digits[Len(digits)]

RECURSIVE str(_)
str(n) == IF n < 10 THEN <<n>> ELSE str(n \div 10) \o <<n % 10>>

\* lexicographic order on digit strings (the order of the names as text)
RECURSIVE LexLess(_, _)
LexLess(a, b) ==
    IF a = <<>> THEN b # <<>>
    ELSE IF b = <<>> THEN FALSE
    ELSE IF a[1] # b[1] THEN a[1] < b[1]
    ELSE LexLess(Tail(a), Tail(b))

----------------------------------------------------------------------------
(* The configuration document.  A value is "" (not provided), "nopath" (a  *)
(* path that does not exist) or "ok"; a certificate or key file has more   *)
(* states, the verdicts of the openssl checks on it.                       *)

Err(kind, key, vm) == [kind |-> kind, key |-> key, vm |-> vm]

_using_provided_certificates(cfg) == cfg.ca_cert_path # ""

_get_external_db_config(cfg) == cfg.external_db_configuration.given

\* appends '<key> is not provided' when the value is falsy
_check_value_provided(value, key, vm) ==
    IF value = "" THEN <<Err("not provided", key, vm)>> ELSE <<>>

\* _check_value_provided, then 'Path ... does not exist'
_check_path(value, key, vm) ==
    IF _check_value_provided(value, key, vm) # <<>>
    THEN _check_value_provided(value, key, vm)
    ELSE IF value = "nopath" THEN <<Err("path does not exist", key, vm)>>
    ELSE <<>>

\* the value _check_path returns
_check_path_result(value) == value # "" /\ value # "nopath"

\* the (vm, role) config paths in the order validate_config_path sees them
RECURSIVE ConfigPathItems(_, _)
ConfigPathItems(vms, i) ==
    IF i > Len(vms) THEN <<>>
    ELSE [j \in 1..Len(vms[i].config_path) |->
             [vm |-> i, path |-> vms[i].config_path[j]]]
         \o ConfigPathItems(vms, i + 1)

\* the closure validate_config_path with its outer_dict, folded over items
RECURSIVE validate_config_path(_, _, _)
validate_config_path(items, using_config_paths, config_path_error_added) ==
    IF items = <<>> THEN <<>>
    ELSE LET it == Head(items) IN
      IF it.path # ""
      THEN IF it.path = "ok"
           THEN validate_config_path(Tail(items), TRUE,
                                     config_path_error_added)
           ELSE <<Err("config path does not exist", "config_path", it.vm)>>
                \o validate_config_path(Tail(items), using_config_paths,
                                        config_path_error_added)
      ELSE IF using_config_paths /\ ~config_path_error_added
           THEN <<Err("config for all or none", "config_path", 0)>>
                \o validate_config_path(Tail(items), using_config_paths, TRUE)
           ELSE validate_config_path(Tail(items), using_config_paths,
                                     config_path_error_added)

_validate_config_paths(existing_vms_list) ==
    validate_config_path(ConfigPathItems(existing_vms_list, 1), FALSE, FALSE)

\* the certificate checks of one vm, made when the CA path exists
VmCertErrors(vm_dict, i) ==
    LET key_path_exists == _check_path_result(vm_dict.key_path)
        key_match ==
            IF ~key_path_exists THEN <<>>
            ELSE IF vm_dict.key_path = "invalid"
                 THEN <<Err("key file invalid", "key_path", i)>>
            ELSE IF vm_dict.key_path = "mismatch"
                 THEN <<Err("key does not match", "key_path", i)>>
            ELSE <<>>
        signed == IF vm_dict.cert_path = "unsigned"
                  THEN <<Err("not signed by CA", "cert_path", i)>>
                  ELSE <<>>
        san == IF vm_dict.cert_path = "wrong_san"
               THEN <<Err("does not match instance", "cert_path", i)>>
               ELSE <<>>
    IN  _check_path(vm_dict.key_path, "key_path", i)
        \o _check_path(vm_dict.cert_path, "cert_path", i)
        \o (IF ~_check_path_result(vm_dict.cert_path) THEN <<>>
            ELSE IF vm_dict.cert_path = "invalid"
                 THEN <<Err("certificate file invalid", "cert_path", i)>>
            ELSE key_match \o signed \o san)

RECURSIVE VmErrors(_, _, _)
VmErrors(vms, i, ca_path_exists) ==
    IF i > Len(vms) THEN <<>>
    ELSE (IF vms[i].private_ip = ""
          THEN <<Err("should be provided", "private_ip", i)>> ELSE <<>>)
         \o (IF ca_path_exists THEN VmCertErrors(vms[i], i) ELSE <<>>)
         \o VmErrors(vms, i + 1, ca_path_exists)

_validate_existing_vms(cfg) ==
    LET ca_errors == IF _using_provided_certificates(cfg)
                     THEN _check_path(cfg.ca_cert_path, "ca_cert_path", 0)
                     ELSE <<>>
        ca_path_exists == _using_provided_certificates(cfg)
                          /\ _check_path_result(cfg.ca_cert_path)
    IN  ca_errors
        \o _validate_config_paths(cfg.existing_vms)
        \o VmErrors(cfg.existing_vms, 1, ca_path_exists)

_validate_external_db_config(cfg) ==
    LET db == cfg.external_db_configuration IN
    IF ~_get_external_db_config(cfg) THEN <<>>
    ELSE _check_value_provided(db.host, "host", 0)
         \o _check_value_provided(db.ca_path, "ca_path", 0)
         \o _check_path(db.ca_path, "ca_path", 0)

\* config['ldap']['server']: a document without the ldap section has no
\* such key
LdapKeyError(cfg) == ~cfg.ldap.given

_validate_ldap_certificate_setting(cfg) ==
    LET ldaps == cfg.ldap.ldaps
        ca_cert == cfg.ldap.ca_cert
    IN  IF LdapKeyError(cfg) THEN <<>> ELSE
        (IF ldaps /\ ca_cert = ""
         THEN <<Err("ldaps needs a CA certificate", "ldap", 0)>>
         ELSE IF ca_cert # "" /\ ~ldaps
         THEN <<Err("CA certificate without ldaps", "ldap", 0)>>
         ELSE <<>>)
        \o (IF ca_cert # "" /\ ldaps
            THEN _check_path(ca_cert, "ca_cert", 0) ELSE <<>>)

\* the errors_list _validate_config has built when it tests `if errors_list`
\* or when an exception leaves it
_validate_config(cfg) ==
    _check_path(cfg.ssh_key_path, "ssh_key_path", 0)
    \o _check_value_provided(cfg.ssh_user, "ssh_user", 0)
    \o _check_path(cfg.cloudify_license_path, "cloudify_license_path", 0)
    \o _check_value_provided(cfg.manager_rpm_download_link,
                             "manager_rpm_download_link", 0)
    \o _validate_existing_vms(cfg)
    \o _validate_external_db_config(cfg)
    \o _validate_ldap_certificate_setting(cfg)

\* raise_errors_list is reached when the list is not empty
RaisesValidationError(errs) == errs # <<>>

\* install() returns after validation when only_validate is set
ReturnsAfterValidationNever(validate_flag) == FALSE
ReturnsAfterValidation(validate_flag) == validate_flag

----------------------------------------------------------------------------
(* Topology: the ordered dictionary tier -> list of nodes *)

\* CfyNode.__init__: type is the name's prefix, installed starts False
CfyNode(node_type, suffix, vm) ==
    [type |-> node_type, suffix |-> suffix, vm |-> vm, installed |-> FALSE]

_get_instances_ordered_dictManagerFirst(cfg) ==
    LET all == [i \in 1..3 |-> [type |-> Roles[4 - i], nodes |-> <<>>]]
    IN  IF _get_external_db_config(cfg) THEN SubSeq(all, 1, 2) ELSE all
_get_instances_ordered_dict(cfg) ==
    LET all == [i \in 1..3 |-> [type |-> Roles[i], nodes |-> <<>>]]
    IN  IF _get_external_db_config(cfg) THEN Tail(all) ELSE all

HasKey(d, t) == \E i \in DOMAIN d : d[i].type = t
KeyIndex(d, t) == CHOOSE i \in DOMAIN d : d[i].type = t

\* instances_dict[node_type].append(new_vm)
AppendNode(d, i, node) == [d EXCEPT ![i].nodes = Append(@, node)]

\* node_name = node_type + '-' + str(i + 1), i the enumerate() index
ThreeNodesSuffix(i) == str(i + 1)

\* validate_connection after the nodes of one tier were built
ValidateNextTierKeep(v) == v
ValidateNextTier(v) == FALSE

\* sort(key=lambda x: int(x.name.rsplit('-', 1)[1])): a before-or-equal b
SortsBeforeLex(a, b) == ~LexLess(b.suffix, a.suffix)
SortsBefore(a, b) == int(a.suffix) <= int(b.suffix)

\* list.sort is stable: x goes behind every element that sorts before it
RECURSIVE InsertSorted(_, _)
InsertSorted(sorted, x) ==
    IF sorted = <<>> THEN <<x>>
    ELSE IF SortsBefore(Head(sorted), x)
         THEN <<Head(sorted)>> \o InsertSorted(Tail(sorted), x)
         ELSE <<x>> \o sorted

RECURSIVE SortNodes(_)
SortNodes(list) ==
    IF list = <<>> THEN <<>>
    ELSE InsertSorted(SortNodes(SubSeq(list, 1, Len(list) - 1)),
                      list[Len(list)])

_sort_instances_dict(d) ==
    [i \in DOMAIN d |->
        IF Len(d[i].nodes) > 1
        THEN [d[i] EXCEPT !.nodes = SortNodes(@)] ELSE d[i]]

\* the dictionary _generate_three_nodes_cluster_dict returns
RECURSIVE ThreeNodesFill(_, _, _, _)
ThreeNodesFill(d, vms, t, i) ==
    IF t > Len(d) THEN d
    ELSE IF i > Len(vms) THEN ThreeNodesFill(d, vms, t + 1, 1)
    ELSE ThreeNodesFill(
            AppendNode(d, t, CfyNode(d[t].type, ThreeNodesSuffix(i - 1), i)),
            vms, t, i + 1)

\* the dictionary _generate_general_cluster_dict returns (every key known)
RECURSIVE GeneralFill(_, _, _)
GeneralFill(d, vms, i) ==
    IF i > Len(vms) THEN _sort_instances_dict(d)
    ELSE GeneralFill(
            AppendNode(d, KeyIndex(d, vms[i].name.type),
                       CfyNode(vms[i].name.type, vms[i].name.suffix, i)),
            vms, i + 1)

UsingThreeNodes(cfg) == Len(cfg.existing_vms) = ThreeNodes

BuiltDict(cfg) ==
    IF UsingThreeNodes(cfg)
    THEN ThreeNodesFill(_get_instances_ordered_dict(cfg),
                        cfg.existing_vms, 1, 1)
    ELSE GeneralFill(_get_instances_ordered_dict(cfg), cfg.existing_vms, 1)

\* the nodes in tier order, then node order: <<tier index, node index>>
RECURSIVE FlatFrom(_, _)
FlatFrom(d, t) ==
    IF t > Len(d) THEN <<>>
    ELSE [j \in 1..Len(d[t].nodes) |-> <<t, j>>] \o FlatFrom(d, t + 1)

Flat(d) == FlatFrom(d, 1)
NumNodes(d) == Len(Flat(d))
NodeAt(d, k) == d[Flat(d)[k][1]].nodes[Flat(d)[k][2]]
TierOf(d, k) == Flat(d)[k][1]
SetInstalledAlways(d, k, v) ==
    [d EXCEPT ![Flat(d)[k][1]].nodes[Flat(d)[k][2]].installed = TRUE]
SetInstalled(d, k, v) ==
    [d EXCEPT ![Flat(d)[k][1]].nodes[Flat(d)[k][2]].installed = v]
InstalledFlags(d) == [k \in 1..NumNodes(d) |-> NodeAt(d, k).installed]

\* _install_instances: the value _verify_cloudify_installed_successfully
\* returns is dropped, the instance is not written
VerifiedInstanceMarked(d, k, verified) == SetInstalled(d, k, verified)
VerifiedInstance(d, k, verified) == d

----------------------------------------------------------------------------
(* The decisions of resume-discovery and of the install-and-verify loop *)

\* _rpm_was_installed: returns False, returns True, or raises
_rpm_was_installedNever(rpm_state, ovr) == "False"
_rpm_was_installedLenient(rpm_state, ovr) ==
    IF rpm_state = "absent" THEN "False" ELSE "True"
_rpm_was_installedAlways(rpm_state, ovr) == "True"
_rpm_was_installed(rpm_state, ovr) ==
    IF rpm_state = "absent" THEN "False"
    ELSE IF rpm_state = "match" \/ ovr THEN "True"
    ELSE "raise"

\* _cloudify_was_previously_installed_successfully, on the first status code
PreviousStatusBranchLenient(code) ==
    CASE code = 0 -> "wait"
      [] code = 3 -> "remove_failed"
      [] OTHER -> "marker"
PreviousStatusBranch(code) ==
    CASE code = 0 -> "wait"
      [] code = 3 -> "remove_failed"
      [] code = 4 -> "marker"
      [] OTHER -> "raise_unknown"

\* while status_code == 0 and retry_count <= 600
WaitContinuesLonger(code, count) == code = 0 /\ count <= WaitLimit + 1
WaitContinues(code, count) == code = 0 /\ count <= WaitLimit

\* if retry_count > 600: raise
WaitTimedOutNever(count) == FALSE
WaitTimedOut(count) == count > WaitLimit

\* _verify_cloudify_installed_successfully, on the status code it reads
VerifyBranchLenient(code) ==
    IF code = 3 THEN "raise_failed" ELSE "marker"
VerifyBranchGoesOnAfterFailure(code) ==
    IF code \in {3, 4} THEN "marker" ELSE "raise_unknown"
VerifyBranch(code) ==
    CASE code = 3 -> "raise_failed"
      [] code = 4 -> "marker"
      [] OTHER -> "raise_unknown"

\* _remove_cloudify_installation: `if not isdir(INITIAL_INSTALL_DIR)`
YumRemoveWanted(installed_dir_exists) == ~installed_dir_exists

\* _remove_cloudify_installation: instance.installed = False
InstalledAfterRemovalKept(was) == was
InstalledAfterRemoval(was) == FALSE

\* _mark_installed_instances: what follows the classification of a node
AfterClassifiedGoesOn(is_installed, ovr) ==
    IF is_installed /\ ovr THEN "remove" ELSE "next"
AfterClassified(is_installed, ovr) ==
    IF is_installed THEN (IF ovr THEN "remove" ELSE "next") ELSE "return"

\* _install_instances: `if instance.installed: continue`
SkipsInstalledNever(instance) == FALSE
SkipsInstalled(instance) == instance.installed

\* _install_instances: the host already holds the install files
SkipsStaging(vm, local, using_three_nodes, tier_index) ==
    vm = local \/ (using_three_nodes /\ tier_index > 1)

\* _populate_credentials: a random value for every credential left blank
\* ("" stands for a document with blank credentials)
_populate_credentials(credentials, generated) ==
    IF credentials = "" THEN generated ELSE credentials

\* _handle_credentials: what is written to secret_credentials.yaml and
\* returned
_handle_credentials(credentials) ==
    _populate_credentials(credentials, "generated by this run")

\* the credentials in the config files of the staging directory:
\* _prepare_config_files renders those install() got from
\* _handle_credentials; when it is not called the files are those an
\* earlier run rendered from the same document
StagedCredentials ==
    IF "config files" \in staging
    THEN credentials_file
    ELSE _populate_credentials(config.credentials,
                               "generated by an earlier run")

\* install: `if (not previous_installation) or override`
PreparesStagingNever(previous, ovr) == FALSE
PreparesStaging(previous, ovr) == ~previous \/ ovr

----------------------------------------------------------------------------
(* The environment *)

\* a remote connection or command may fail unless the environment is frozen
ConnOutcomes == IF frozen THEN {"ok"} ELSE {"ok", "fail"}

\* isdir(INITIAL_INSTALL_DIR) is evaluated on the machine the tool runs on
LocalInstalledDir(mk) ==
    IF local_host = 0 THEN local_installed_dir
    ELSE \E r \in RoleSet : mk[local_host][r]

\* what a status poll of a running unit may find: <<code, marker>>
PollOutcomes(code, mk) ==
    IF code # 0 \/ frozen THEN {<<code, mk>>}
    ELSE {<<0, mk>>, <<3, mk>>, <<4, TRUE>>, <<4, mk>>, <<1, mk>>}

\* the unit and marker `cfy_manager install` leaves behind
LaunchOutcomes(mk, may_be_silent) ==
    {<<4, TRUE>>, <<3, mk>>, <<0, mk>>, <<1, mk>>}
    \cup (IF mk \/ may_be_silent THEN {<<4, mk>>} ELSE {})

----------------------------------------------------------------------------
(* Frames *)

inputV == <<config, override, only_validate, local_host, local_installed_dir,
            installed_at_start, frozen>>
remoteV == <<rpm, unit, marker>>
topoV == <<validate_connection, ti, ni, conn_tests>>
waitV == <<status_code, retry_count, polls>>
discV == <<probed, removed, failed_removed, code3_seen>>
instV == <<launched, uploaded, issued, silent>>
twiceV == <<round, first_pass>>
genV == <<gen>>
connV == <<connections, call>>
runV == <<local_run>>
installV == <<inputV, remoteV, topoV, waitV, discV, instV, twiceV, cur, pc,
              error, errors_list, credentials_file, instances_dict,
              previous_installation, remote_touched, staging, marker_seen>>

Goto(p) == pc' = p /\ error' = error
RaiseAndGoOn(e) == pc' = pc /\ error' = e
Raise(e) == pc' = "error" /\ error' = e

\* the node the discovery or install loop is at
Node == NodeAt(instances_dict, cur)

----------------------------------------------------------------------------
(* install(): from the start to the end of validation *)

install_begin ==
    /\ pc = "start"
    /\ \E yum \in BOOLEAN :
         LET errs == _validate_config(config) IN
         IF ~yum
         THEN /\ Raise("ClusterInstallError: Yum is not present")
              /\ UNCHANGED <<errors_list, credentials_file, instances_dict>>
         ELSE /\ errors_list' = errs
              /\ IF LdapKeyError(config)
                 THEN /\ Raise("KeyError: ldap")
                      /\ UNCHANGED <<credentials_file, instances_dict>>
                 ELSE IF RaisesValidationError(errs)
                 THEN /\ Raise("ValidationError")
                      /\ UNCHANGED <<credentials_file, instances_dict>>
                 ELSE IF ReturnsAfterValidation(only_validate)
                 THEN /\ Goto("validated")
                      /\ UNCHANGED <<credentials_file, instances_dict>>
                 ELSE /\ Goto(IF UsingThreeNodes(config)
                              THEN "three_nodes" ELSE "general")
                      /\ credentials_file' =
                            _handle_credentials(config.credentials)
                      /\ instances_dict' = _get_instances_ordered_dict(config)
    /\ UNCHANGED <<inputV, genV, connV, runV,
                   remoteV, topoV, waitV, discV, instV, twiceV,
                   cur,
                   previous_installation, remote_touched, staging,
                   marker_seen>>

----------------------------------------------------------------------------
(* Topology building: one _get_cfy_node call per step *)

\* _get_cfy_node copies the node's certificate and key into CERTS_DIR
NodeCertsStaged ==
    IF _using_provided_certificates(config)
    THEN staging \cup {"node certs"} ELSE staging

_generate_three_nodes_cluster_dict ==
    /\ pc = "three_nodes"
    /\ IF ti > Len(instances_dict)
       THEN /\ Goto("previous_installation")
            /\ UNCHANGED <<instances_dict, topoV, remote_touched, staging>>
       ELSE \E conn \in (IF validate_connection THEN ConnOutcomes
                                                ELSE {"ok"}) :
            LET new_vm == CfyNode(instances_dict[ti].type,
                                  ThreeNodesSuffix(ni - 1), ni)
                last == ni = Len(config.existing_vms)
            IN  /\ staging' = NodeCertsStaged
                /\ conn_tests' = IF validate_connection
                                 THEN [conn_tests EXCEPT ![ni] = @ + 1]
                                 ELSE conn_tests
                /\ remote_touched' = (remote_touched \/ validate_connection)
                /\ IF conn = "fail"
                   THEN /\ Raise("ClusterInstallError: SSH")
                        /\ UNCHANGED <<instances_dict, validate_connection,
                                       ti, ni>>
                   ELSE /\ Goto("three_nodes")
                        /\ instances_dict' =
                               AppendNode(instances_dict, ti, new_vm)
                        /\ ti' = IF last THEN ti + 1 ELSE ti
                        /\ ni' = IF last THEN 1 ELSE ni + 1
                        /\ validate_connection' =
                               IF last
                               THEN ValidateNextTier(validate_connection)
                               ELSE validate_connection
    /\ UNCHANGED <<inputV, genV, connV, runV,
                   remoteV, waitV, discV, instV, twiceV, cur,
                   errors_list, credentials_file, previous_installation,
                   marker_seen>>

_generate_general_cluster_dict ==
    /\ pc = "general"
    /\ IF ni > Len(config.existing_vms)
       THEN /\ Goto("previous_installation")
            /\ instances_dict' = _sort_instances_dict(instances_dict)
            /\ UNCHANGED <<topoV, remote_touched, staging>>
       ELSE \E conn \in ConnOutcomes :
            LET vm_dict == config.existing_vms[ni]
                new_vm == CfyNode(vm_dict.name.type, vm_dict.name.suffix, ni)
            IN  /\ staging' = NodeCertsStaged
                /\ conn_tests' = [conn_tests EXCEPT ![ni] = @ + 1]
                /\ remote_touched' = TRUE
                /\ UNCHANGED <<validate_connection, ti>>
                /\ IF conn = "fail"
                   THEN /\ Raise("ClusterInstallError: SSH")
                        /\ UNCHANGED <<instances_dict, ni>>
                   ELSE IF ~HasKey(instances_dict, new_vm.type)
                   THEN /\ Raise("KeyError: tier")
                        /\ UNCHANGED <<instances_dict, ni>>
                   ELSE /\ Goto("general")
                        /\ instances_dict' =
                               AppendNode(instances_dict,
                                          KeyIndex(instances_dict,
                                                   new_vm.type), new_vm)
                        /\ ni' = ni + 1
    /\ UNCHANGED <<inputV, genV, connV, runV,
                   remoteV, waitV, discV, instV, twiceV, cur,
                   errors_list, credentials_file, previous_installation,
                   marker_seen>>

----------------------------------------------------------------------------
(* Was there a previous installation? *)

_previous_installation ==
    /\ pc = "previous_installation"
    /\ LET first_tier ==
               IF HasKey(instances_dict, "postgresql")
               THEN instances_dict[KeyIndex(instances_dict,
                                            "postgresql")].nodes
               ELSE instances_dict[KeyIndex(instances_dict,
                                            "rabbitmq")].nodes
       IN  IF first_tier = <<>>
           THEN /\ Raise("IndexError")
                /\ UNCHANGED <<previous_installation, remote_touched>>
           ELSE \E conn \in ConnOutcomes :
                LET r == _rpm_was_installed(rpm[first_tier[1].vm], override)
                IN  /\ remote_touched' = TRUE
                    /\ IF conn = "fail"
                       THEN /\ Raise("ClusterInstallError: remote command")
                            /\ UNCHANGED previous_installation
                       ELSE IF r = "raise"
                       THEN /\ Raise("ClusterInstallError: different rpm")
                            /\ UNCHANGED previous_installation
                       ELSE /\ previous_installation' = (r = "True")
                            /\ Goto(IF r = "True" THEN "mark"
                                                  ELSE "after_mark")
    /\ UNCHANGED <<inputV, genV, connV, runV,
                   remoteV, topoV, waitV, discV, instV, twiceV,
                   cur,
                   errors_list, credentials_file, instances_dict, staging,
                   marker_seen>>

----------------------------------------------------------------------------
(* Resume-discovery: _mark_installed_instances and what it calls *)

\* instance.installed = <result>, then the rest of the loop body
Classify(is_installed) ==
    LET nxt == AfterClassified(is_installed, override) IN
    /\ instances_dict' = SetInstalled(instances_dict, cur, is_installed)
    /\ marker_seen' = IF is_installed THEN marker_seen \cup {cur}
                                      ELSE marker_seen
    /\ cur' = IF nxt = "next" THEN cur + 1 ELSE cur
    /\ Goto(CASE nxt = "remove" -> "remove"
              [] nxt = "next" -> "mark"
              [] OTHER -> "after_mark")

\* the loop head and the package check of the node reached
_mark_installed_instances ==
    /\ pc = "mark"
    /\ IF cur > NumNodes(instances_dict)
       THEN /\ Goto("after_mark")
            /\ UNCHANGED <<probed, remote_touched>>
       ELSE \E conn \in ConnOutcomes :
            LET r == _rpm_was_installed(rpm[Node.vm], override) IN
            /\ probed' = probed \cup {cur}
            /\ remote_touched' = TRUE
            /\ IF conn = "fail"
               THEN Raise("ClusterInstallError: remote command")
               ELSE IF r = "raise"
               THEN Raise("ClusterInstallError: different rpm")
               ELSE IF r = "False" THEN Goto("after_mark")
               ELSE Goto("status")
    /\ UNCHANGED <<inputV, genV, connV, runV,
                   remoteV, topoV, waitV, instV, twiceV, cur,
                   removed, failed_removed, code3_seen,
                   errors_list, credentials_file, instances_dict,
                   previous_installation, staging, marker_seen>>

\* the first status query and, on code 4, the marker check
_cloudify_was_previously_installed_successfully ==
    /\ pc = "status"
    /\ \E conn \in ConnOutcomes :
         LET code == unit[Node.vm][Node.type]
             branch == PreviousStatusBranch(code)
         IN  IF conn = "fail"
             THEN /\ Raise("ClusterInstallError: remote command")
                  /\ UNCHANGED <<waitV, instances_dict, marker_seen, cur,
                                 code3_seen>>
             ELSE /\ status_code' = code
                  /\ code3_seen' =
                         IF code = 3
                         THEN code3_seen
                              \cup {[node |-> cur, at |-> "first"]}
                         ELSE code3_seen
                  /\ retry_count' = 0
                  /\ polls' = 0
                  /\ CASE branch = "wait" ->
                            /\ Goto("wait")
                            /\ UNCHANGED <<instances_dict, marker_seen, cur>>
                       [] branch = "remove_failed" ->
                            /\ Goto("remove_failed")
                            /\ UNCHANGED <<instances_dict, marker_seen, cur>>
                       [] branch = "marker" ->
                            Classify(marker[Node.vm][Node.type])
                       [] OTHER ->
                            /\ Raise("ClusterInstallError: status unknown")
                            /\ UNCHANGED <<instances_dict, marker_seen, cur>>
    /\ UNCHANGED <<inputV, genV, connV, runV, remoteV, topoV, instV, twiceV,
                   probed, removed, failed_removed,
                   errors_list, credentials_file, previous_installation,
                   remote_touched, staging>>

\* one turn of the wait loop: sleep, count, poll the status
_wait_for_cloudify_current_installation ==
    /\ pc = "wait"
    /\ WaitContinues(status_code, retry_count)
    /\ \E conn \in ConnOutcomes :
       \E out \in PollOutcomes(unit[Node.vm][Node.type],
                               marker[Node.vm][Node.type]) :
         /\ retry_count' = retry_count + 1
         /\ polls' = polls + 1
         /\ IF conn = "fail"
            THEN /\ Raise("ClusterInstallError: remote command")
                 /\ UNCHANGED <<status_code, unit, marker>>
            ELSE /\ Goto("wait")
                 /\ status_code' = out[1]
                 /\ unit' = [unit EXCEPT ![Node.vm][Node.type] = out[1]]
                 /\ marker' = [marker EXCEPT ![Node.vm][Node.type] = out[2]]
    /\ UNCHANGED <<inputV, genV, connV, runV,
                   rpm, topoV, discV, instV, twiceV, cur,
                   errors_list, credentials_file, instances_dict,
                   previous_installation, remote_touched, staging,
                   marker_seen>>

\* the loop is left: the timeout, or back to the caller
wait_returns ==
    /\ pc = "wait"
    /\ ~WaitContinues(status_code, retry_count)
    /\ IF WaitTimedOut(retry_count)
       THEN /\ Raise("ClusterInstallError: time out")
            /\ UNCHANGED <<retry_count, polls>>
       ELSE /\ Goto("requery")
            /\ retry_count' = 0
            /\ polls' = 0
    /\ UNCHANGED <<inputV, genV, connV, runV,
                   remoteV, topoV, discV, instV, twiceV, cur,
                   status_code, errors_list, credentials_file,
                   instances_dict, previous_installation, remote_touched,
                   staging, marker_seen>>

\* _verify_cloudify_installed_successfully called after the wait
requery_after_wait ==
    /\ pc = "requery"
    /\ \E conn \in ConnOutcomes :
         LET code == unit[Node.vm][Node.type]
             branch == VerifyBranch(code)
         IN  IF conn = "fail"
             THEN /\ Raise("ClusterInstallError: remote command")
                  /\ UNCHANGED <<status_code, code3_seen, instances_dict,
                                 marker_seen, cur>>
             ELSE /\ status_code' = code
                  /\ code3_seen' =
                         IF code = 3
                         THEN code3_seen
                              \cup {[node |-> cur, at |-> "requery"]}
                         ELSE code3_seen
                  /\ CASE branch = "raise_failed" ->
                            /\ Raise("ClusterInstallError: failed installing")
                            /\ UNCHANGED <<instances_dict, marker_seen, cur>>
                       [] branch = "marker" ->
                            Classify(marker[Node.vm][Node.type])
                       [] OTHER ->
                            /\ Raise("ClusterInstallError: status unknown")
                            /\ UNCHANGED <<instances_dict, marker_seen,
                                           cur>>
    /\ UNCHANGED <<inputV, genV, connV, runV,
                   remoteV, topoV, instV, twiceV, retry_count,
                   polls,
                   probed, removed, failed_removed,
                   errors_list, credentials_file, previous_installation,
                   remote_touched, staging>>

\* status code 3 on the first query: `cfy_manager remove`, then
\* `systemctl reset-failed`, then return False
remove_failed_installation ==
    /\ pc = "remove_failed"
    /\ \E out \in (IF frozen THEN {"ok"}
                             ELSE {"ok", "fail remove", "fail reset"}) :
         /\ marker' = IF out = "fail remove" THEN marker
                      ELSE [marker EXCEPT ![Node.vm][Node.type] = FALSE]
         /\ unit' = IF out = "ok"
                    THEN [unit EXCEPT ![Node.vm][Node.type] = 4] ELSE unit
         /\ failed_removed' = IF out = "fail remove" THEN failed_removed
                              ELSE failed_removed \cup {cur}
         /\ IF out = "ok"
            THEN Classify(FALSE)
            ELSE /\ Raise("ClusterInstallError: remote command")
                 /\ UNCHANGED <<instances_dict, marker_seen, cur>>
    /\ UNCHANGED <<inputV, genV, connV, runV, rpm, topoV, waitV, instV, twiceV,
                   probed, removed, code3_seen,
                   errors_list, credentials_file, previous_installation,
                   remote_touched, staging>>

\* override: `cfy_manager remove`, `yum remove` unless INITIAL_INSTALL_DIR
\* is a directory, the manager's certificates moved aside, installed = False
_remove_cloudify_installation ==
    /\ pc = "remove"
    /\ LET cleared == [marker EXCEPT ![Node.vm][Node.type] = FALSE]
           yum == YumRemoveWanted(LocalInstalledDir(cleared))
           outs == IF frozen THEN {"ok"}
                   ELSE {"ok", "fail remove"}
                        \cup (IF yum THEN {"fail yum"} ELSE {})
                        \cup (IF Node.type = "manager"
                              THEN {"fail certs"} ELSE {})
       IN  \E out \in outs :
             /\ marker' = IF out = "fail remove" THEN marker ELSE cleared
             /\ rpm' = IF yum /\ out \in {"ok", "fail certs"}
                       THEN [rpm EXCEPT ![Node.vm] = "absent"] ELSE rpm
             /\ removed' = IF out = "fail remove" THEN removed
                           ELSE removed \cup {cur}
             /\ IF out = "ok"
                THEN /\ instances_dict' =
                            SetInstalled(instances_dict, cur,
                                InstalledAfterRemoval(Node.installed))
                     /\ cur' = cur + 1
                     /\ Goto("mark")
                ELSE /\ Raise("ClusterInstallError: remote command")
                     /\ UNCHANGED <<instances_dict, cur>>
    /\ UNCHANGED <<inputV, genV, connV, runV, unit, topoV, waitV, instV, twiceV,
                   probed, failed_removed, code3_seen,
                   errors_list, credentials_file, previous_installation,
                   remote_touched, staging, marker_seen>>

----------------------------------------------------------------------------
(* Staging, the install-and-verify loop, the report *)

\* what install() leaves under CLUSTER_INSTALL_DIR: the directory is made
\* anew (an existing one is moved away), then filled
StagedByInstall ==
    {"dir", "license", "ca", "config files"}
    \cup (IF _using_provided_certificates(config) THEN {}
                                                  ELSE {"node certs"})
    \cup (IF _get_external_db_config(config) THEN {"external db ca"}
                                             ELSE {})

install_prepare ==
    /\ pc = "after_mark"
    /\ Goto("install")
    /\ cur' = 1
    /\ IF PreparesStaging(previous_installation, override)
       THEN /\ staging' = StagedByInstall
            \* _install_cloudify_locally
            /\ rpm' = IF local_host # 0
                      THEN [rpm EXCEPT ![local_host] = "match"] ELSE rpm
       ELSE UNCHANGED <<staging, rpm>>
    /\ UNCHANGED <<inputV, genV, connV, runV,
                   unit, marker, topoV, waitV, discV, instV,
                   twiceV,
                   errors_list, credentials_file, instances_dict,
                   previous_installation, remote_touched, marker_seen>>

\* one turn of the loop of _install_instances
_install_instances ==
    /\ pc = "install"
    /\ IF cur > NumNodes(instances_dict)
       THEN /\ Goto("report")
            /\ UNCHANGED <<remoteV, instV, cur, status_code, remote_touched,
                           marker_seen, instances_dict>>
       ELSE IF SkipsInstalled(Node)
       THEN /\ Goto("install")
            /\ cur' = cur + 1
            /\ UNCHANGED <<remoteV, instV, status_code, remote_touched,
                           marker_seen, instances_dict>>
       ELSE
         LET vm == Node.vm
             role == Node.type
             skip == SkipsStaging(vm, local_host, UsingThreeNodes(config),
                                  TierOf(instances_dict, cur))
             r == _rpm_was_installed(rpm[vm], FALSE)
             fails == IF frozen THEN {}
                      ELSE {"fail cp", "fail launch"}
                           \cup (IF skip THEN {}
                                 ELSE {"fail upload", "fail rpm"})
             runs == LaunchOutcomes(marker[vm][role],
                                    Cardinality(silent) < MaxSilent)
         IN  \E kind \in fails \cup {"run"} : \E out \in runs :
               LET put == ~skip /\ kind # "fail upload"
                   checked == put /\ kind # "fail rpm"
                   conflict == checked /\ r = "raise"
                   started == kind \in {"fail launch", "run"} /\ ~conflict
                   ran == kind = "run" /\ ~conflict
                   branch == VerifyBranch(out[1])
               IN
               /\ remote_touched' = TRUE
               /\ uploaded' = IF put THEN uploaded \cup {vm} ELSE uploaded
               /\ issued' = issued
                     \cup (IF skip THEN {} ELSE {<<cur, "put_dir">>})
                     \cup (IF (skip \/ checked) /\ ~conflict
                           THEN {<<cur, "cp">>} ELSE {})
                     \cup (IF started THEN {<<cur, "install">>} ELSE {})
               /\ rpm' = IF checked /\ r = "False"
                         THEN [rpm EXCEPT ![vm] = "match"] ELSE rpm
               /\ launched' = IF started THEN Append(launched, cur)
                                         ELSE launched
               /\ unit' = IF ran THEN [unit EXCEPT ![vm][role] = out[1]]
                                 ELSE unit
               /\ marker' = IF ran THEN [marker EXCEPT ![vm][role] = out[2]]
                                   ELSE marker
               /\ status_code' = IF ran THEN out[1] ELSE status_code
               /\ marker_seen' = IF ran /\ branch = "marker" /\ out[2]
                                 THEN marker_seen \cup {cur} ELSE marker_seen
               /\ silent' = IF ran /\ branch = "marker" /\ ~out[2]
                            THEN silent \cup {cur} ELSE silent
               /\ instances_dict' =
                     IF ran /\ branch = "marker"
                     THEN VerifiedInstance(instances_dict, cur, out[2])
                     ELSE instances_dict
               /\ IF conflict
                  THEN /\ Raise("ClusterInstallError: different rpm")
                       /\ UNCHANGED cur
                  ELSE IF ~ran
                  THEN /\ Raise("ClusterInstallError: remote command")
                       /\ UNCHANGED cur
                  ELSE IF branch = "raise_failed"
                  THEN /\ Raise("ClusterInstallError: failed installing")
                       /\ UNCHANGED cur
                  ELSE IF branch = "raise_unknown"
                  THEN /\ Raise("ClusterInstallError: status unknown")
                       /\ UNCHANGED cur
                  ELSE /\ Goto("install")
                       /\ cur' = cur + 1
    /\ UNCHANGED <<inputV, genV, connV, runV,
                   topoV, retry_count, polls, discV, twiceV,
                   errors_list, credentials_file,
                   previous_installation, staging>>

\* the connection strings of instances_dict['manager'], the success message
install_report ==
    /\ pc = "report"
    /\ Goto("done")
    /\ UNCHANGED <<inputV, genV, connV, runV,
                   remoteV, topoV, waitV, discV, instV, twiceV,
                   cur,
                   errors_list, credentials_file, instances_dict,
                   previous_installation, remote_touched, staging,
                   marker_seen>>

\* _mark_installed_instances called a second time on the same dictionary
mark_installed_instances_again ==
    /\ pc \in {"after_mark", "error"}
    /\ round = 1
    /\ round' = 2
    /\ first_pass' = InstalledFlags(instances_dict)
    /\ pc' = "mark"
    /\ error' = "none"
    /\ cur' = 1
    /\ status_code' = 4
    /\ retry_count' = 0
    /\ polls' = 0
    /\ UNCHANGED <<inputV, genV, connV, runV, remoteV, topoV, discV, instV,
                   errors_list, credentials_file, instances_dict,
                   previous_installation, remote_touched, staging,
                   marker_seen>>

----------------------------------------------------------------------------
(* Configurations *)

VmDict(t, suffix, three) ==
    [name |-> [type |-> t, suffix |-> suffix],
     private_ip |-> "ok",
     config_path |-> IF three THEN <<"", "", "">> ELSE <<"">>,
     key_path |-> "", cert_path |-> ""]

\* three declared instances: each one plays every role
ThreeVms == [i \in 1..3 |-> VmDict("node", <<i>>, TRUE)]

\* general mode, declared out of order
GeneralVms ==
    <<VmDict("manager", <<1, 0>>, FALSE), VmDict("rabbitmq", <<1>>, FALSE),
      VmDict("postgresql", <<1>>, FALSE), VmDict("manager", <<2>>, FALSE)>>

\* general mode for an external database: no postgresql instance
GeneralVmsNoDb ==
    <<VmDict("manager", <<1, 0>>, FALSE), VmDict("rabbitmq", <<2>>, FALSE),
      VmDict("rabbitmq", <<1>>, FALSE), VmDict("manager", <<2>>, FALSE)>>

ValidConfig(vms, external_db) ==
    [ssh_key_path |-> "ok", ssh_user |-> "ok",
     cloudify_license_path |-> "ok", manager_rpm_download_link |-> "ok",
     ca_cert_path |-> "",
     credentials |-> "",
     existing_vms |-> vms,
     external_db_configuration |->
         [given |-> external_db, host |-> "ok", ca_path |-> "ok"],
     ldap |-> [given |-> TRUE, ldaps |-> FALSE, ca_cert |-> ""]]

\* every key of the nodes' types is in the dictionary
Buildable(cfg) ==
    UsingThreeNodes(cfg)
    \/ \A i \in 1..Len(cfg.existing_vms) :
          HasKey(_get_instances_ordered_dict(cfg),
                 cfg.existing_vms[i].name.type)

----------------------------------------------------------------------------
(* The remote hosts a run may find.  An earlier run installs node after    *)
(* node in the order of the dictionary: `prior` nodes are installed, the   *)
(* next one is in state `cs`, the others are untouched or, with `tail`,    *)
(* installed as well.                                                      *)

CurStates == {"none", "running", "failed", "other"}

NodeState(k, prior, cs, tail) ==
    IF k = 0 THEN <<4, FALSE>>
    ELSE IF k <= prior THEN <<4, TRUE>>
    ELSE IF k = prior + 1
         THEN CASE cs = "running" -> <<0, FALSE>>
                [] cs = "failed" -> <<3, FALSE>>
                [] cs = "other" -> <<1, FALSE>>
                [] OTHER -> <<4, FALSE>>
    ELSE IF tail THEN <<4, TRUE>> ELSE <<4, FALSE>>

\* the node of role r on vm v, 0 when there is none
NodeOn(d, v, r) ==
    LET ks == {k \in 1..NumNodes(d) :
                 NodeAt(d, k).vm = v /\ NodeAt(d, k).type = r}
    IN  IF ks = {} THEN 0 ELSE CHOOSE k \in ks : TRUE

\* the hosts of the nodes `on` (vm -> role -> node) after such a run
HostsAfter(on, prior, cs, tail, all_rpm, version) ==
    LET state == [v \in DOMAIN on |-> [r \in RoleSet |->
                     NodeState(on[v][r], prior, cs, tail)]]
        touched == [v \in DOMAIN on |->
                     \E r \in RoleSet :
                        /\ on[v][r] # 0
                        /\ \/ on[v][r] <= prior
                           \/ on[v][r] = prior + 1 /\ cs # "none"
                           \/ tail]
    IN  [rpm |-> [v \in DOMAIN on |->
                    IF all_rpm \/ touched[v] THEN version ELSE "absent"],
         unit |-> [v \in DOMAIN on |-> [r \in RoleSet |-> state[v][r][1]]],
         marker |-> [v \in DOMAIN on |-> [r \in RoleSet |-> state[v][r][2]]]]

NodesOn(cfg) ==
    LET d == IF Buildable(cfg) THEN BuiltDict(cfg)
                               ELSE _get_instances_ordered_dict(cfg)
    IN  [v \in 1..Len(cfg.existing_vms) |-> [r \in RoleSet |->
            NodeOn(d, v, r)]]

Scenario(cfg, prior, cs, tail, all_rpm, version) ==
    HostsAfter(NodesOn(cfg), prior, cs, tail, all_rpm, version)

\* <<tail, all_rpm, version>>
HostVariants ==
    {<<FALSE, FALSE, "match">>, <<FALSE, TRUE, "match">>,
     <<FALSE, FALSE, "differ">>, <<TRUE, FALSE, "match">>}

CleanHosts(cfg) == Scenario(cfg, 0, "none", FALSE, FALSE, "match")

\* an earlier run put the package on the machine it ran on, the host of the
\* last declared instance (_install_cloudify_locally), and ended before the
\* package reached the host of its first node
LocalOnly(cfg) ==
    [CleanHosts(cfg) EXCEPT !.rpm[Len(cfg.existing_vms)] = "match"]

\* a unit found running is followed through its whole wait loop: such
\* hosts are drawn in fewer variants, the unit being the one of the first
\* node, of the first node of the second tier or of the last node
Scenarios(cfg) ==
    LET n == IF Buildable(cfg) THEN NumNodes(BuiltDict(cfg)) ELSE 0
        on == NodesOn(cfg)
        second == IF Buildable(cfg) THEN Len(BuiltDict(cfg)[1].nodes) ELSE 0
    IN
    {HostsAfter(on, prior, cs, v[1], v[2], v[3]) :
        prior \in 0..n, cs \in CurStates \ {"running"}, v \in HostVariants}
    \cup {HostsAfter(on, prior, "running", FALSE, FALSE, "match") :
            prior \in {0, second, n - 1}}
    \cup {LocalOnly(cfg)}

Running(u) == \E v \in DOMAIN u : \E r \in RoleSet : u[v][r] = 0

----------------------------------------------------------------------------
(* Initial states *)

\* run is not being called
NoRun ==
    [at |-> "idle", retries |-> 0, ignore_failures |-> FALSE,
     given |-> [retries |-> 0, ignore_failures |-> FALSE],
     codes |-> <<>>, result |-> "none"]

\* no method of a VM is being called
NoCall ==
    [op |-> "none", at |-> "idle", conn |-> 0, hide_stdout |-> FALSE,
     use_sudo |-> FALSE, pending |-> "none", opens |-> 0, result |-> "none",
     n |-> 0]

\* no call of generate_config is made
NoGenerate ==
    [at |-> "idle", output |-> "", three |-> FALSE, nine |-> FALSE,
     external_db |-> FALSE, path |-> "none", inner |-> FALSE,
     existed |-> FALSE, prompted |-> FALSE, answer |-> "", written |-> "none",
     overwrote |-> FALSE, template |-> "none", error |-> "none"]

InitProgram ==
    /\ pc = "start"
    /\ error = "none"
    /\ errors_list = <<>>
    /\ credentials_file = "none"
    /\ instances_dict = <<>>
    /\ validate_connection = TRUE
    /\ ti = 1
    /\ ni = 1
    /\ cur = 1
    /\ previous_installation = FALSE
    /\ status_code = 4
    /\ retry_count = 0
    /\ polls = 0
    /\ conn_tests = [v \in 1..Len(config.existing_vms) |-> 0]
    /\ remote_touched = FALSE
    /\ staging = {}
    /\ probed = {}
    /\ removed = {}
    /\ failed_removed = {}
    /\ code3_seen = {}
    /\ launched = <<>>
    /\ uploaded = {}
    /\ issued = {}
    /\ marker_seen = {}
    /\ silent = {}
    /\ round = 1
    /\ first_pass = <<>>

InitHosts(scenarios) ==
    /\ \E sc \in scenarios :
         /\ rpm = sc.rpm
         /\ unit = sc.unit
         /\ marker = sc.marker
    /\ local_host \in (IF Running(unit) THEN {0}
                                        ELSE {0, 1, Len(config.existing_vms)})
    /\ local_installed_dir \in (IF local_host = 0 /\ ~Running(unit)
                                THEN BOOLEAN ELSE {FALSE})
    /\ installed_at_start =
           {<<v, r>> \in (DOMAIN rpm) \X RoleSet :
               rpm[v] # "absent" /\ unit[v][r] = 4 /\ marker[v][r]}

\* a document with a CA and credentials of its own: ca_cert_path is given,
\* every declared instance names its certificate and its key, and no
\* credential is left blank
ProvidedCertsConfig ==
    [ValidConfig([i \in DOMAIN GeneralVms |->
                     [GeneralVms[i] EXCEPT !.key_path = "ok",
                                           !.cert_path = "ok"]], FALSE)
        EXCEPT !.ca_cert_path = "ok", !.credentials = "provided"]

RunConfigs ==
    {ValidConfig(vms, db) : vms \in {ThreeVms, GeneralVms, GeneralVmsNoDb},
                            db \in BOOLEAN}
    \cup {ProvidedCertsConfig}

\* documents that pass validation and documents that do not
ValidateConfigs ==
    {[ValidConfig(ThreeVms, FALSE) EXCEPT !.ssh_user = user,
                                          !.cloudify_license_path = lic,
                                          !.ldap.given = ldap] :
        user \in {"", "ok"}, lic \in {"", "nopath", "ok"},
        ldap \in BOOLEAN}

\* a run of `install` on hosts an earlier run may have left
InitRun ==
    /\ config \in RunConfigs
    /\ override \in BOOLEAN
    /\ only_validate = FALSE
    /\ InitHosts(Scenarios(config))

\* a run of `install`, with or without --validate, on any document
InitValidate ==
    /\ config \in ValidateConfigs
    /\ override \in BOOLEAN
    /\ only_validate \in BOOLEAN
    /\ InitHosts({CleanHosts(config)})

Init ==
    /\ InitRun \/ InitValidate
    /\ frozen = FALSE
    /\ gen = NoGenerate
    /\ connections = <<>>
    /\ call = NoCall
    /\ local_run = NoRun
    /\ InitProgram

Next ==
    \/ install_begin
    \/ _generate_three_nodes_cluster_dict
    \/ _generate_general_cluster_dict
    \/ _previous_installation
    \/ _mark_installed_instances
    \/ _cloudify_was_previously_installed_successfully
    \/ _wait_for_cloudify_current_installation
    \/ wait_returns
    \/ requery_after_wait
    \/ remove_failed_installation
    \/ _remove_cloudify_installation
    \/ install_prepare
    \/ _install_instances
    \/ install_report

Spec == Init /\ [][Next]_vars

----------------------------------------------------------------------------
(* Resume-discovery run twice on hosts nothing else changes: the state    *)
(* install() is in when it calls _mark_installed_instances, then the       *)
(* discovery, then the same call again.  No unit ends by itself, so a wait *)
(* loop is left by its timeout only and the re-query is never reached.     *)

FirstTier(d) ==
    IF HasKey(d, "postgresql") THEN d[KeyIndex(d, "postgresql")].nodes
                               ELSE d[KeyIndex(d, "rabbitmq")].nodes

\* the documents whose topology is built and has a first instance
DiscoveryConfigs ==
    {cfg \in RunConfigs : Buildable(cfg) /\ FirstTier(BuiltDict(cfg)) # <<>>}

InitTwice ==
    /\ config \in DiscoveryConfigs
    /\ override \in BOOLEAN
    /\ only_validate = FALSE
    /\ frozen = TRUE
    /\ gen = NoGenerate
    /\ connections = <<>>
    /\ call = NoCall
    /\ local_run = NoRun
    /\ InitHosts(Scenarios(config))
    /\ _rpm_was_installed(rpm[FirstTier(BuiltDict(config))[1].vm],
                          override) = "True"
    /\ pc = "mark"
    /\ error = "none"
    /\ errors_list = <<>>
    /\ credentials_file = _handle_credentials(config.credentials)
    /\ instances_dict = BuiltDict(config)
    /\ validate_connection = ~UsingThreeNodes(config)
    /\ ti = (IF UsingThreeNodes(config) THEN Len(instances_dict) + 1 ELSE 1)
    /\ ni = (IF UsingThreeNodes(config) THEN 1
                                        ELSE Len(config.existing_vms) + 1)
    /\ cur = 1
    /\ previous_installation = TRUE
    /\ status_code = 4
    /\ retry_count = 0
    /\ polls = 0
    /\ conn_tests = [v \in 1..Len(config.existing_vms) |-> 1]
    /\ remote_touched = TRUE
    /\ staging = {}
    /\ probed = {}
    /\ removed = {}
    /\ failed_removed = {}
    /\ code3_seen = {}
    /\ launched = <<>>
    /\ uploaded = {}
    /\ issued = {}
    /\ marker_seen = {}
    /\ silent = {}
    /\ round = 1
    /\ first_pass = <<>>

NextTwice ==
    \/ _mark_installed_instances
    \/ _cloudify_was_previously_installed_successfully
    \/ _wait_for_cloudify_current_installation
    \/ wait_returns
    \/ remove_failed_installation
    \/ _remove_cloudify_installation
    \/ mark_installed_instances_again

SpecTwice == InitTwice /\ [][NextTwice]_vars

----------------------------------------------------------------------------
(* _generate_general_cluster_dict on every declared list of distinct      *)
(* names (the keys of existing_vms), in every order                        *)

GeneralSuffixes == {<<1>>, <<2>>, <<1, 0>>}

GeneralNames ==
    {[type |-> t, suffix |-> x] : t \in RoleSet, x \in GeneralSuffixes}

GeneralLists ==
    {l \in UNION {[1..n -> GeneralNames] :
                     n \in (1..MaxGeneralVMs) \ {ThreeNodes}} :
        \A i, j \in DOMAIN l : i # j => l[i] # l[j]}

InitTopo ==
    /\ \E l \in GeneralLists : \E db \in BOOLEAN :
         config = ValidConfig(
                     [i \in DOMAIN l |-> VmDict(l[i].type, l[i].suffix,
                                                FALSE)], db)
    /\ override = FALSE
    /\ only_validate = FALSE
    /\ frozen = FALSE
    /\ gen = NoGenerate
    /\ connections = <<>>
    /\ call = NoCall
    /\ local_run = NoRun
    /\ InitHosts({CleanHosts(config)})
    /\ local_host = 0
    /\ ~local_installed_dir
    /\ InitProgram

NextTopo ==
    \/ install_begin
    \/ _generate_general_cluster_dict

SpecTopo == InitTopo /\ [][NextTopo]_vars

----------------------------------------------------------------------------
(* Validation of every document made of provided and missing fields *)

ValidatedVms ==
    {[i \in 1..3 |-> [ThreeVms[i] EXCEPT !.private_ip = ips[i]]] :
        ips \in [1..3 -> {"", "ok"}]}

ValidatedConfigs ==
    {[ValidConfig(vms, FALSE) EXCEPT !.ssh_key_path = key,
                                     !.ssh_user = user,
                                     !.cloudify_license_path = lic,
                                     !.manager_rpm_download_link = link,
                                     !.ldap.given = ldap] :
        vms \in ValidatedVms,
        key \in {"", "nopath", "ok"}, user \in {"", "ok"},
        lic \in {"", "ok"}, link \in {"", "ok"}, ldap \in BOOLEAN}

InitValidation ==
    /\ config \in ValidatedConfigs
    /\ override = FALSE
    /\ only_validate = TRUE
    /\ frozen = FALSE
    /\ gen = NoGenerate
    /\ connections = <<>>
    /\ call = NoCall
    /\ local_run = NoRun
    /\ InitHosts({CleanHosts(config)})
    /\ local_host = 0
    /\ ~local_installed_dir
    /\ InitProgram

NextValidation == install_begin

SpecValidate == InitValidation /\ [][NextValidation]_vars

----------------------------------------------------------------------------
(* generate_config: the output path on disk is absent, a file, or a        *)
(* directory that holds a cfy_cluster_config.yaml or not.  gen.at is the   *)
(* position in the call, gen.existed whether the output path was there     *)
(* when the call began, gen.written where the file was written.            *)

\* what the user may type at the prompt
Answers == {"yes", "y", "no", "n", "YES", "Y", "No", "N", "maybe", ""}

\* str.lower() on these answers
Lower(a) ==
    CASE a = "YES" -> "yes"
      [] a = "Y" -> "y"
      [] a = "No" -> "no"
      [] a = "N" -> "n"
      [] OTHER -> a

\* `override_file.lower() not in ('yes', 'y', 'no', 'n')`
AnswerInvalid(a) == Lower(a) \notin {"yes", "y", "no", "n"}

\* `override_file.lower() in ('no', 'n')`
AnswerIsNoLongOnly(a) == Lower(a) = "no"
AnswerIsNo(a) == Lower(a) \in {"no", "n"}

\* the template generate_config renders
ClusterConfigFile(three, nine, external_db) ==
    IF nine
    THEN (IF external_db
          THEN "cfy_nine_nodes_external_db_cluster_config.yaml"
          ELSE "cfy_nine_nodes_cluster_config.yaml")
    ELSE IF three
    THEN (IF external_db
          THEN "cfy_three_nodes_external_db_cluster_config.yaml"
          ELSE "cfy_three_nodes_cluster_config.yaml")
    ELSE "none"

\* the flags are tested, then exists(output_path)
generate_config ==
    /\ gen.at = "start"
    /\ gen' = IF ~gen.nine /\ ~gen.three
              THEN [gen EXCEPT !.at = "error",
                               !.error = "ClusterInstallError: specify nodes"]
              ELSE IF gen.path # "none"
              THEN [gen EXCEPT !.at = "prompt", !.prompted = TRUE]
              ELSE [gen EXCEPT !.at = "write"]
    /\ UNCHANGED <<installV, connV, runV>>

\* input(): the answer, then the two tests of it
generate_config_prompt ==
    /\ gen.at = "prompt"
    /\ \E a \in Answers :
         gen' = IF AnswerInvalid(a)
                THEN [gen EXCEPT !.answer = a, !.at = "error",
                                 !.error = "ClusterInstallError: respond"]
                ELSE IF AnswerIsNo(a)
                THEN [gen EXCEPT !.answer = a, !.at = "exit"]
                ELSE [gen EXCEPT !.answer = a, !.at = "write"]
    /\ UNCHANGED <<installV, connV, runV>>

\* isdir(output_path), then the template is rendered and written
_handle_cluster_config_file ==
    /\ gen.at = "write"
    /\ gen' = [gen EXCEPT
                 !.at = "done",
                 !.template = ClusterConfigFile(gen.three, gen.nine,
                                                gen.external_db),
                 !.written = IF gen.path = "dir" THEN "inner" ELSE "path",
                 !.overwrote = IF gen.path = "dir" THEN gen.inner
                               ELSE gen.path = "file",
                 !.inner = IF gen.path = "dir" THEN TRUE ELSE gen.inner,
                 !.path = IF gen.path = "none" THEN "file" ELSE gen.path]
    /\ UNCHANGED <<installV, connV, runV>>

\* every call of generate_config on every state of the output path
GenerateCalls ==
    {[NoGenerate EXCEPT !.at = "start", !.output = o, !.three = t,
                        !.nine = n, !.external_db = db,
                        !.path = k[1], !.inner = k[2],
                        !.existed = (k[1] # "none")] :
        o \in {"", "out"}, t \in BOOLEAN, n \in BOOLEAN, db \in BOOLEAN,
        k \in {<<"none", FALSE>>, <<"file", FALSE>>,
               <<"dir", FALSE>>, <<"dir", TRUE>>}}

InitGenerate ==
    /\ gen \in GenerateCalls
    /\ connections = <<>>
    /\ call = NoCall
    /\ local_run = NoRun
    /\ config = ValidConfig(ThreeVms, FALSE)
    /\ override = FALSE
    /\ only_validate = FALSE
    /\ InitHosts({CleanHosts(config)})
    /\ local_host = 0
    /\ ~local_installed_dir
    /\ frozen = FALSE
    /\ InitProgram

NextGenerate ==
    \/ generate_config
    \/ generate_config_prompt
    \/ _handle_cluster_config_file

SpecGenerate == InitGenerate /\ [][NextGenerate]_vars

----------------------------------------------------------------------------
(* VM.test_connection and VM.run_command: the Connection objects made so   *)
(* far, each "new", "open" or "closed", and the call being made.           *)

\* `finally: connection.close()`
AfterTestClosedOnErrorOnly(state, pending) ==
    IF pending = "none" THEN state ELSE "closed"
AfterTest(state, pending) == "closed"

\* what connection.open() does: the connection is open, or it raised
OpenOutcomes == {"ok", "socket_error", "AuthenticationException", "other"}

\* `except (socket_error, AuthenticationException)`: what leaves the try
RaisedByOpen(out) ==
    CASE out = "ok" -> "none"
      [] out \in {"socket_error", "AuthenticationException"} ->
            "ClusterInstallError"
      [] OTHER -> "other"

\* test_connection() is called: Connection(...) is constructed
test_connection ==
    /\ call.at = "idle"
    /\ call.n < MaxCalls
    /\ connections' = Append(connections, "new")
    /\ call' = [NoCall EXCEPT !.op = "test_connection", !.at = "open",
                              !.conn = Len(connections) + 1,
                              !.n = call.n + 1]
    /\ UNCHANGED <<installV, genV, runV>>

\* run_command() is called: _get_connection constructs the Connection and
\* passes it to test_connection
run_command ==
    /\ call.at = "idle"
    /\ call.n < MaxCalls
    /\ \E hide \in BOOLEAN, sudo \in BOOLEAN :
         call' = [NoCall EXCEPT !.op = "run_command", !.at = "open",
                                !.conn = Len(connections) + 1,
                                !.hide_stdout = hide, !.use_sudo = sudo,
                                !.n = call.n + 1]
    /\ connections' = Append(connections, "new")
    /\ UNCHANGED <<installV, genV, runV>>

\* try: connection.open()
connection_open ==
    /\ call.at = "open"
    /\ \E out \in OpenOutcomes :
         /\ connections' = IF out = "ok"
                           THEN [connections EXCEPT ![call.conn] = "open"]
                           ELSE connections
         /\ call' = [call EXCEPT !.at = "finally",
                                 !.pending = RaisedByOpen(out),
                                 !.opens = IF out = "ok" THEN @ + 1 ELSE @]
    /\ UNCHANGED <<installV, genV, runV>>

\* finally: connection.close(); then the exception goes on, or
\* test_connection returns, to its caller or into `with ... as connection`
connection_close ==
    /\ call.at = "finally"
    /\ connections' =
          [connections EXCEPT
              ![call.conn] = AfterTest(connections[call.conn], call.pending)]
    /\ call' = IF call.pending # "none"
               THEN [call EXCEPT !.at = "idle", !.result = call.pending]
               ELSE IF call.op = "test_connection"
               THEN [call EXCEPT !.at = "idle", !.result = "returned"]
               ELSE [call EXCEPT !.at = "with"]
    /\ UNCHANGED <<installV, genV, runV>>

\* connection.sudo / connection.run: the closed connection is opened again
\* by the command, which then ends, fails (result.failed) or raises
connection_run ==
    /\ call.at = "with"
    /\ \E out \in {"ok", "failed", "raised", "not opened"} :
         /\ connections' = IF out = "not opened" THEN connections
                           ELSE [connections EXCEPT ![call.conn] = "open"]
         /\ call' = [call EXCEPT
                       !.at = "exit",
                       !.opens = IF out = "not opened" THEN @ ELSE @ + 1,
                       !.pending = CASE out = "ok" -> "none"
                                     [] out = "failed" -> "ClusterInstallError"
                                     [] OTHER -> "other"]
    /\ UNCHANGED <<installV, genV, runV>>

\* the `with` block is left: Connection.__exit__ closes the connection
connection_exit ==
    /\ call.at = "exit"
    /\ connections' = [connections EXCEPT ![call.conn] = "closed"]
    /\ call' = [call EXCEPT !.at = "idle",
                            !.result = IF call.pending = "none"
                                       THEN "returned" ELSE call.pending]
    /\ UNCHANGED <<installV, genV, runV>>

InitConnections ==
    /\ config = ValidConfig(ThreeVms, FALSE)
    /\ override = FALSE
    /\ only_validate = FALSE
    /\ InitHosts({CleanHosts(config)})
    /\ local_host = 0
    /\ ~local_installed_dir
    /\ frozen = FALSE
    /\ gen = NoGenerate
    /\ connections = <<>>
    /\ call = NoCall
    /\ local_run = NoRun
    /\ InitProgram

NextConnections ==
    \/ test_connection
    \/ run_command
    \/ connection_open
    \/ connection_close
    \/ connection_run
    \/ connection_exit

SpecConnections == InitConnections /\ [][NextConnections]_vars

----------------------------------------------------------------------------
(* Validation of every document in which some config paths are given *)

\* the instances of vms with the config paths of paths, item by item
RECURSIVE WithConfigPaths(_, _)
WithConfigPaths(vms, paths) ==
    IF vms = <<>> THEN <<>>
    ELSE LET n == Len(Head(vms).config_path) IN
         <<[Head(vms) EXCEPT !.config_path = SubSeq(paths, 1, n)]>>
         \o WithConfigPaths(Tail(vms), SubSeq(paths, n + 1, Len(paths)))

ConfigPathConfigs ==
    {ValidConfig(WithConfigPaths(vms, paths), FALSE) :
        vms \in {ThreeVms},
        paths \in [1..Len(ConfigPathItems(ThreeVms, 1)) -> {"", "ok"}]}
    \cup {ValidConfig(WithConfigPaths(GeneralVms, paths), FALSE) :
            paths \in [1..Len(GeneralVms) -> {"", "ok"}]}

InitConfigPaths ==
    /\ config \in ConfigPathConfigs
    /\ override = FALSE
    /\ only_validate = TRUE
    /\ frozen = FALSE
    /\ gen = NoGenerate
    /\ connections = <<>>
    /\ call = NoCall
    /\ local_run = NoRun
    /\ InitHosts({CleanHosts(config)})
    /\ local_host = 0
    /\ ~local_installed_dir
    /\ InitProgram

NextConfigPaths == install_begin

SpecConfigPaths == InitConfigPaths /\ [][NextConfigPaths]_vars

----------------------------------------------------------------------------
(* run(command, retries, ignore_failures): each call executes the command  *)
(* once and, when it failed and retries are left, calls run again.         *)

\* what the process may exit with
ReturnCodes == {0, 1, 2}

\* `proc = run(command, retries - 1)`: the arguments of the inner call;
\* ignore_failures is not passed on and takes its default
InnerCall(retries, ignore_failures) ==
    [retries |-> retries - 1, ignore_failures |-> FALSE]

\* one call of run: Popen, communicate, then the test of proc.returncode
run ==
    /\ local_run.at = "call"
    /\ \E code \in ReturnCodes :
         LET ran == [local_run EXCEPT !.codes = Append(@, code)] IN
         local_run' =
            IF code = 0
            THEN [ran EXCEPT !.at = "done", !.result = "returned"]
            ELSE IF local_run.retries # 0
            THEN [ran EXCEPT
                    !.retries = InnerCall(local_run.retries,
                                    local_run.ignore_failures).retries,
                    !.ignore_failures =
                          InnerCall(local_run.retries,
                              local_run.ignore_failures).ignore_failures]
            ELSE IF ~local_run.ignore_failures
            THEN [ran EXCEPT !.at = "done",
                             !.result = "ProcessExecutionError"]
            ELSE [ran EXCEPT !.at = "done", !.result = "returned"]
    /\ UNCHANGED <<installV, genV, connV>>

\* every call run(command, retries, ignore_failures)
RunCalls ==
    {[NoRun EXCEPT !.at = "call", !.retries = n, !.ignore_failures = ign,
                   !.given = [retries |-> n, ignore_failures |-> ign]] :
        n \in 0..MaxRetries, ign \in BOOLEAN}

InitRunCommand ==
    /\ config = ValidConfig(ThreeVms, FALSE)
    /\ override = FALSE
    /\ only_validate = FALSE
    /\ InitHosts({CleanHosts(config)})
    /\ local_host = 0
    /\ ~local_installed_dir
    /\ frozen = FALSE
    /\ gen = NoGenerate
    /\ connections = <<>>
    /\ call = NoCall
    /\ local_run \in RunCalls
    /\ InitProgram

NextRunCommand == run

SpecRunCommand == InitRunCommand /\ [][NextRunCommand]_vars

----------------------------------------------------------------------------
(* The claims *)

NodeIds == 1..NumNodes(instances_dict)
Installed(k) == NodeAt(instances_dict, k).installed
Launched == {launched[i] : i \in DOMAIN launched}

\* C1, as the specification states it: in the install-and-verify loop a
\* node whose status query after the launch returns code 4 while its
\* completion marker is absent ends the run with the fatal "status unknown"
\* error, and that node is the last one launched.
C1_MissingMarkerIsFatal ==
    \A k \in silent :
        /\ pc = "error"
        /\ error = "ClusterInstallError: status unknown"
        /\ launched[Len(launched)] = k

\* the cluster of C2: three instances, override, every node of every tier
\* installed when the run begins
C2_FullyInstalledOverride ==
    /\ override
    /\ UsingThreeNodes(config)
    /\ installed_at_start =
          {<<v, r>> \in (1..ThreeNodes) \X RoleSet :
              HasKey(_get_instances_ordered_dict(config), r)}

\* C2, as the specification states it: with override on a fully installed
\* three-instance cluster the finished run has removed every node,
\* launched the install of every node and left installed = TRUE on every
\* node.
C2_AllRemovedReinstalledInstalled ==
    (C2_FullyInstalledOverride /\ pc = "done") =>
        /\ removed = NodeIds
        /\ Launched = NodeIds
        /\ \A k \in NodeIds : Installed(k)

\* C3, as the specification states it: a node for which resume-discovery
\* read status code 3, at the first query or at the re-query after a wait,
\* is left installed = FALSE, has its failed installation removed, and no
\* later node is probed.
C3_Code3AlwaysRemovedAndHalts ==
    \A o \in code3_seen :
        (pc # "remove_failed" /\ error # "ClusterInstallError: remote command")
        => /\ ~Installed(o.node)
           /\ o.node \in failed_removed
           /\ \A k \in probed : k <= o.node

\* C3, amended: code 3 at the first status query has the failed
\* installation removed, leaves the node installed = FALSE and ends
\* discovery at that node; code 3 at the re-query after a wait raises the
\* fatal "failed installing" error, removes nothing and ends the run, the
\* node still installed = FALSE.  In both cases no later node is probed.
C3_Code3FirstQueryRemovesRequeryRaises ==
    \A o \in code3_seen :
        /\ ~Installed(o.node)
        /\ \A k \in probed : k <= o.node
        /\ o.at = "first" =>
              /\ o.node \notin removed
              /\ (pc # "remove_failed"
                  /\ error # "ClusterInstallError: remote command")
                 => o.node \in failed_removed
        /\ o.at = "requery" =>
              /\ pc = "error"
              /\ error = "ClusterInstallError: failed installing"
              /\ o.node \notin failed_removed
              /\ o.node \notin removed
              /\ launched = <<>>

C3_Witness ==
    \E o \in code3_seen :
        /\ o.at = "first"
        /\ o.node > 1
        /\ o.node \in failed_removed
        /\ pc = "install"

C4_Inv ==
    error = "ClusterInstallError: time out" =>
        /\ pc = "error"
        /\ launched = <<>>
        /\ \A k \in probed : k <= cur

C4_Step ==
    /\ (pc = "wait" /\ status_code = 0 /\ polls > WaitLimit)
       => (pc' = "error" /\ error' = "ClusterInstallError: time out")
    /\ error # "ClusterInstallError: time out"

\* C4: a unit that is running at the first query and at more than 600
\* polls in a row makes the next step of the run the timeout error; the
\* run ends there: no step follows the error, no node after the waiting one
\* was probed and no install command was launched.
C4_TimeoutAfter600Polls == [](C4_Inv) /\ [][C4_Step]_vars

C4_Witness ==
    /\ error = "ClusterInstallError: time out"
    /\ status_code = 0
    /\ polls = WaitLimit + 1
    /\ cur > 1

\* C5, as the specification states it: the wait loop has issued at most
\* 600 status polls when it raises the timeout error.
C5_AtMost600Polls ==
    error = "ClusterInstallError: time out" => polls <= WaitLimit

\* C5, amended: the wait loop issues at most 601 status polls for one
\* node, and the timeout error is raised after exactly 601 of them.
C5_AtMost601Polls ==
    /\ polls <= WaitLimit + 1
    /\ error = "ClusterInstallError: time out" => polls = WaitLimit + 1

C5_Witness ==
    /\ pc = "error"
    /\ error = "ClusterInstallError: time out"
    /\ retry_count = WaitLimit + 1

\* C6: when _mark_installed_instances has run twice in a row on hosts that
\* nothing but discovery changes, every node has the installed flag the
\* first run left it with, for every state of the hosts and both values of
\* override.
C6_DiscoveryIdempotent ==
    (round = 2 /\ pc \in {"after_mark", "error"})
    => InstalledFlags(instances_dict) = first_pass

C6_Witness ==
    /\ round = 2
    /\ pc = "after_mark"
    /\ \E k \in NodeIds : first_pass[k] /\ ~first_pass[NumNodes(instances_dict)]
    /\ failed_removed # {}

\* the errors install() raises before _validate_config has returned
BeforeValidated ==
    \/ pc = "start"
    \/ error \in {"ClusterInstallError: Yum is not present",
                  "ValidationError", "KeyError: ldap"}

\* C7: a run with only_validate makes no remote connection or command and
\* writes nothing under the staging directory, whether validation passes or
\* raises; and no run does either before _validate_config has returned
\* without error.
C7_ValidateOnlyTouchesNothing ==
    (only_validate \/ BeforeValidated)
    => /\ ~remote_touched
       /\ staging = {}
       /\ uploaded = {}
       /\ launched = <<>>
       /\ \A v \in DOMAIN conn_tests : conn_tests[v] = 0

C7_Witness ==
    /\ only_validate
    /\ pc = "validated"
    /\ errors_list = <<>>

RequiredTopLevel ==
    {"ssh_key_path", "ssh_user", "cloudify_license_path",
     "manager_rpm_download_link"}

\* the required fields the document does not provide
MissingFields(cfg) ==
    {[key |-> k, vm |-> 0] : k \in {x \in RequiredTopLevel : cfg[x] = ""}}
    \cup {[key |-> "private_ip", vm |-> i] :
             i \in {j \in DOMAIN cfg.existing_vms :
                       cfg.existing_vms[j].private_ip = ""}}

\* the entries of the report that say the field is missing
EntriesFor(errs, m) ==
    {j \in DOMAIN errs :
        /\ errs[j].key = m.key
        /\ errs[j].vm = m.vm
        /\ errs[j].kind \in {"not provided", "should be provided"}}

ValidationEnded ==
    pc # "start" /\ error # "ClusterInstallError: Yum is not present"

\* C8, as the specification states it: when some required fields are
\* missing _validate_config raises one ValidationError whose report has one
\* entry for each of them, and when no check fails it raises nothing.
C8_OneEntryPerMissingField ==
    ValidationEnded =>
        /\ MissingFields(config) # {} =>
              /\ error = "ValidationError"
              /\ \A m \in MissingFields(config) :
                    Cardinality(EntriesFor(errors_list, m)) = 1
        /\ errors_list = <<>> => error = "none"

\* C9: for a list of three declared instances
\* _generate_three_nodes_cluster_dict returns the tiers postgresql,
\* rabbitmq, manager (rabbitmq, manager with an external database), each
\* with the three nodes <tier>-1, <tier>-2, <tier>-3 in that order on the
\* first, second and third instance, and has called test_connection once
\* for each instance.
C9_ThreeNodesShape ==
    (UsingThreeNodes(config) /\ pc = "previous_installation") =>
        /\ [i \in DOMAIN instances_dict |-> instances_dict[i].type]
              = (IF _get_external_db_config(config)
                 THEN <<"rabbitmq", "manager">>
                 ELSE <<"postgresql", "rabbitmq", "manager">>)
        /\ \A i \in DOMAIN instances_dict :
              /\ Len(instances_dict[i].nodes) = 3
              /\ \A j \in 1..3 :
                    /\ instances_dict[i].nodes[j].type = instances_dict[i].type
                    /\ instances_dict[i].nodes[j].suffix = <<j>>
                    /\ instances_dict[i].nodes[j].vm = j
        /\ \A v \in 1..3 : conn_tests[v] = 1

C9_Witness ==
    /\ UsingThreeNodes(config)
    /\ pc = "previous_installation"
    /\ _get_external_db_config(config)
    /\ Len(instances_dict) = 2

\* the places <<tier, position>> of the dictionary that hold declared vm i
PlacesOf(i) ==
    {tp \in {<<t, p>> \in (DOMAIN instances_dict)
                              \X (DOMAIN config.existing_vms) :
                p <= Len(instances_dict[t].nodes)} :
        instances_dict[tp[1]].nodes[tp[2]].vm = i}

\* C10: for a general-mode list in any order
\* _generate_general_cluster_dict puts every declared instance once, in
\* the tier its name's prefix names, and every tier's list ascends by the
\* number the suffix denotes, manager-10 behind manager-2.
C10_GroupedAndNumericallySorted ==
    (~UsingThreeNodes(config) /\ pc = "previous_installation") =>
        /\ \A i \in DOMAIN config.existing_vms :
              /\ Cardinality(PlacesOf(i)) = 1
              /\ \A tp \in PlacesOf(i) :
                    /\ instances_dict[tp[1]].type
                          = config.existing_vms[i].name.type
                    /\ instances_dict[tp[1]].nodes[tp[2]].suffix
                          = config.existing_vms[i].name.suffix
        /\ NumNodes(instances_dict) = Len(config.existing_vms)
        /\ \A t \in DOMAIN instances_dict :
              \A p, q \in DOMAIN instances_dict[t].nodes :
                 LET a == instances_dict[t].nodes[p]
                     b == instances_dict[t].nodes[q]
                 IN  /\ p < q => int(a.suffix) <= int(b.suffix)
                     /\ (a.suffix = <<2>> /\ b.suffix = <<1, 0>>) => p < q

C10_Witness ==
    /\ ~UsingThreeNodes(config)
    /\ pc = "previous_installation"
    /\ \E i, j \in DOMAIN config.existing_vms :
          /\ i < j
          /\ config.existing_vms[i].name
                = [type |-> "manager", suffix |-> <<1, 0>>]
          /\ config.existing_vms[j].name
                = [type |-> "manager", suffix |-> <<2>>]
    /\ \E t \in DOMAIN instances_dict :
          /\ instances_dict[t].type = "manager"
          /\ Len(instances_dict[t].nodes) >= 2
          /\ instances_dict[t].nodes[1].suffix = <<2>>

\* the first instance of the first tier, the one _previous_installation asks
FirstInstance == FirstTier(instances_dict)[1]

\* C11, as the specification states it: a package present with another
\* identity ends the run only when no override was requested.  With
\* override no package check of any phase (first node, resume-discovery,
\* install loop) raises the conflicting-version error; without override
\* every such check raises it, so that neither discovery nor the install
\* loop goes on with a node whose host holds a different package.
C11_DifferentRpmFatalOnlyWithoutOverride ==
    /\ override => error # "ClusterInstallError: different rpm"
    /\ ~override =>
          /\ previous_installation => rpm[FirstInstance.vm] # "differ"
          /\ pc \in {"status", "wait", "requery", "remove_failed"}
                => rpm[Node.vm] # "differ"
          /\ \A k \in Launched :
                NodeAt(instances_dict, k).vm \in uploaded
                   => rpm[NodeAt(instances_dict, k).vm] # "differ"

\* the positions of resume-discovery
DiscoveryPcs == {"mark", "status", "wait", "requery", "remove_failed",
                 "remove"}

\* the state right after the decision of install(): discovery is entered and
\* has probed nothing yet, or it is passed over
DiscoveryDecided == pc \in {"mark", "after_mark"} /\ probed = {}

\* C12, as the specification states it: resume-discovery runs if and only
\* if the package is present on at least one node of the cluster.
C12_DiscoveryIffPackageOnSomeNode ==
    DiscoveryDecided =>
        (pc = "mark" <=> \E v \in DOMAIN rpm : rpm[v] # "absent")

\* C12, as the code has it: resume-discovery runs if and only if the first
\* instance of the first tier holds the package (of the same identity, or
\* of any identity with override); a package on other hosts does not count.
C12_Inv ==
    /\ DiscoveryDecided =>
          /\ pc = "mark" <=> rpm[FirstInstance.vm] # "absent"
          /\ pc = "mark" <=> previous_installation
          /\ rpm[FirstInstance.vm] = "differ" => override
    /\ pc \in DiscoveryPcs => previous_installation /\ launched = <<>>

\* resume-discovery is entered once, from the first-node check, and probes
\* only while no install command has been launched
C12_Step ==
    /\ (pc' = "mark" /\ pc \notin DiscoveryPcs)
          => pc = "previous_installation" /\ probed = {} /\ launched = <<>>
    /\ probed' # probed => launched' = <<>>
    /\ launched' # launched => pc \notin DiscoveryPcs

C12_DiscoveryIffPackageOnFirstInstance == [](C12_Inv) /\ [][C12_Step]_vars

\* the package is on a later host only and discovery is passed over
C12_Witness ==
    /\ pc = "after_mark"
    /\ probed = {}
    /\ rpm[FirstInstance.vm] = "absent"
    /\ \E v \in DOMAIN rpm : rpm[v] # "absent"

\* the status code and the marker of a node's install unit on its host
UnitOf(node) == unit[node.vm][node.type]
MarkerOf(node) == marker[node.vm][node.type]

\* C13: a node has installed = true only if the status code last read for
\* its install unit is 4 and its completion marker existed at that check;
\* a node whose unit reported code 3, or whose unit is still running or not
\* yet classified, does not have installed = true.
C13_InstalledOnlyAfterCode4AndMarker ==
    LET flat == Flat(instances_dict) IN
    \A k \in DOMAIN flat :
        LET node == instances_dict[flat[k][1]].nodes[flat[k][2]] IN
        /\ node.installed =>
              /\ UnitOf(node) = 4
              /\ k \in marker_seen
              /\ \A c \in code3_seen : c.node # k
        /\ UnitOf(node) \in {0, 3} => ~node.installed
        /\ (pc \in {"status", "wait", "requery", "remove_failed"} /\ k >= cur)
              => ~node.installed

\* discovery has marked a node installed and then met a failed unit
C13_Witness ==
    /\ pc = "after_mark"
    /\ \E k \in NodeIds : Installed(k) /\ MarkerOf(NodeAt(instances_dict, k))
    /\ \E k \in NodeIds : ~Installed(k) /\ k \in failed_removed

\* C14, as the specification states it: the staging tree is written
\* completely before any remote operation, so that once a connection test,
\* a probe, a removal or an upload has been made the tree is there and is
\* not written any more.
C14_StagingBeforeAnyRemoteOperation ==
    remote_touched => staging = StagedByInstall

\* C14, as the code has it: the staging tree is complete before the first
\* upload and the first install command of a run that prepares it, and it
\* holds at most copied node certificates while the topology is built and
\* resume-discovery runs.
C14_Inv ==
    /\ (uploaded # {} \/ launched # <<>>)
          => ((~previous_installation \/ override)
                 => staging = StagedByInstall)
    /\ pc \in {"start", "three_nodes", "general", "previous_installation"}
              \cup DiscoveryPcs \cup {"after_mark"}
          => /\ staging \subseteq {"node certs"}
             /\ uploaded = {}
             /\ launched = <<>>
    /\ (previous_installation /\ ~override) => staging \subseteq {"node certs"}

\* the tree is written in one step, between resume-discovery and the install
\* loop, after the connection tests and the package check; before that only
\* _get_cfy_node copies a node's certificate and key, with a CA of one's own
C14_Step ==
    staging' # staging =>
        \/ /\ pc = "after_mark"
           /\ pc' = "install"
           /\ remote_touched
           /\ staging' = StagedByInstall
        \/ /\ pc \in {"three_nodes", "general"}
           /\ _using_provided_certificates(config)
           /\ staging' = staging \cup {"node certs"}

C14_StagingAfterDiscoveryBeforeInstallLoop ==
    [](C14_Inv) /\ [][C14_Step]_vars

\* discovery has removed an installation, then the tree was written and
\* uploaded
C14_Witness ==
    /\ removed # {}
    /\ staging = StagedByInstall
    /\ uploaded # {}
    /\ launched # <<>>

\* database tier, then messaging tier, then application tier
TierRank(t) ==
    CASE t = "postgresql" -> 1
      [] t = "rabbitmq" -> 2
      [] t = "manager" -> 3

\* C15: install commands are launched one after the other, in tier order
\* database, messaging, application and in node order within a tier.  When
\* a node is launched every earlier node is installed already or has been
\* launched and its status query returned code 4, so the unit of every
\* node launched before has ended: at most one node is being installed at
\* any time.
C15_SequentialInTierAndNodeOrder ==
    LET flat == Flat(instances_dict)
        node(k) == instances_dict[flat[k][1]].nodes[flat[k][2]]
        last == IF launched = <<>> THEN 0 ELSE launched[Len(launched)]
    IN
    /\ \A i, j \in DOMAIN launched :
          i < j =>
             /\ launched[i] < launched[j]
             /\ TierRank(node(launched[i]).type)
                   <= TierRank(node(launched[j]).type)
             /\ node(launched[i]).type = node(launched[j]).type
                   => int(node(launched[i]).suffix)
                         < int(node(launched[j]).suffix)
    /\ \A k \in DOMAIN flat :
          k < last =>
             \/ node(k).installed /\ k \notin Launched
             \/ ~node(k).installed /\ k \in Launched /\ UnitOf(node(k)) = 4
    /\ (pc = "install" /\ launched # <<>>) => UnitOf(node(last)) = 4

\* a resumed run has launched nodes of two tiers after the installed ones
C15_Witness ==
    /\ Len(launched) >= 3
    /\ TierOf(instances_dict, launched[1])
          # TierOf(instances_dict, launched[Len(launched)])
    /\ \E k \in NodeIds : Installed(k) /\ k < launched[1]

\* C16: the install loop sends no staging upload, no config copy and no
\* install command for a node whose installed flag is true after
\* resume-discovery; it acts on the nodes with installed = false only, and
\* when it ends it has sent the config copy and the install command of
\* every one of them.
C16_InstallLoopSkipsInstalledNodes ==
    LET flat == Flat(instances_dict)
        node(k) == instances_dict[flat[k][1]].nodes[flat[k][2]]
    IN
    /\ \A c \in issued : ~node(c[1]).installed
    /\ \A k \in Launched : ~node(k).installed
    /\ pc \in {"report", "done"} =>
          \A k \in DOMAIN flat :
              ~node(k).installed
                 => <<k, "cp">> \in issued /\ <<k, "install">> \in issued

\* a resumed run without override: discovery marked nodes installed and the
\* install loop went over the others to its end
C16_Witness ==
    /\ pc = "done"
    /\ previous_installation
    /\ ~override
    /\ \E k \in NodeIds : Installed(k)
    /\ \E k \in NodeIds : <<k, "put_dir">> \in issued

\* the install loop found the install of its current node failed
InstallFoundFailed ==
    /\ pc = "error"
    /\ error = "ClusterInstallError: failed installing"
    /\ launched # <<>>
    /\ launched[Len(launched)] = cur

\* C17: an install is never retried.  Within one run the install command
\* is launched at most once per node, and once the status query after a
\* launch returned code 3 the run has ended: no install command follows,
\* neither for that node nor for a later one.
C17_Inv ==
    LET flat == Flat(instances_dict)
        node(k) == instances_dict[flat[k][1]].nodes[flat[k][2]]
    IN
    /\ \A i, j \in DOMAIN launched : launched[i] = launched[j] => i = j
    /\ \A i \in DOMAIN launched :
          (i < Len(launched) \/ pc \in {"install", "report", "done"})
             => UnitOf(node(launched[i])) = 4
    /\ InstallFoundFailed =>
          /\ UnitOf(node(cur)) = 3
          /\ \A k \in Launched : k <= cur
          /\ \A c \in issued : c[1] <= cur

C17_Step ==
    launched' # launched =>
        /\ pc = "install"
        /\ error = "none"
        /\ ~InstallFoundFailed
        /\ cur \notin Launched
        /\ launched' = Append(launched, cur)
        /\ launched # <<>> => status_code = 4

C17_NoRetryOfAnInstall == [](C17_Inv) /\ [][C17_Step]_vars

\* the third install of a run failed and nodes are left that were not tried
C17_Witness ==
    /\ InstallFoundFailed
    /\ Len(launched) >= 3
    /\ cur < NumNodes(instances_dict)

\* C18, as the specification states it: with an external database the
\* topology mapping has no postgresql key and no operation of the run looks
\* the postgresql tier up or appends to it, whatever instances are declared:
\* no node of type postgresql is in the mapping and no lookup of the missing
\* key ends the run.
C18_ExternalDbNeverTouchesPostgresqlTier ==
    _get_external_db_config(config) =>
        /\ ~HasKey(instances_dict, "postgresql")
        /\ \A t \in DOMAIN instances_dict :
              \A p \in DOMAIN instances_dict[t].nodes :
                  instances_dict[t].nodes[p].type # "postgresql"
        /\ error # "KeyError: tier"

\* C19, as the specification states it: with a CA of one's own, when a run
\* that prepares the staging tree first uploads it to a remote host the
\* certs directory holds the CA certificate and the certificate and key of
\* every node.
C19_ProvidedCertsStagedAtFirstUpload ==
    (/\ _using_provided_certificates(config)
     /\ ~previous_installation \/ override
     /\ uploaded # {})
        => {"ca", "node certs"} \subseteq staging

\* the errors C20 is about
StatusErrors == {"ClusterInstallError: failed installing",
                 "ClusterInstallError: status unknown"}

\* a step of the install loop whose install command ran, so that the status
\* query after it was made
VerifiedAfterLaunch ==
    /\ pc = "install"
    /\ launched' # launched
    /\ error' # "ClusterInstallError: remote command"

\* a step of resume-discovery whose first status query was answered
FirstQueryAnswered ==
    /\ pc = "status"
    /\ error' # "ClusterInstallError: remote command"

\* C20: in the install-and-verify loop code 3 right after the launch raises
\* 'failed installing' for that node and every code other than 3 and 4,
\* code 0 included, raises 'status unknown'; in resume-discovery a first
\* query answered by a code other than 0, 3 and 4 raises 'status unknown'.
C20_Step ==
    /\ VerifiedAfterLaunch =>
          /\ launched' = Append(launched, cur)
          /\ status_code' = 3 <=>
                error' = "ClusterInstallError: failed installing"
          /\ status_code' \notin {3, 4} <=>
                error' = "ClusterInstallError: status unknown"
          /\ status_code' = 4 <=> (error' = "none" /\ pc' = "install")
          /\ error' \in StatusErrors => pc' = "error" /\ cur' = cur
    /\ FirstQueryAnswered =>
          /\ status_code' \notin {0, 3, 4} <=>
                error' = "ClusterInstallError: status unknown"
          /\ error' = "ClusterInstallError: status unknown"
                => pc' = "error" /\ cur' = cur
          /\ status_code' = 0 => pc' = "wait"
          /\ status_code' = 3 => pc' = "remove_failed"

\* after one of these errors the run has ended: no node after the one that
\* raised it was probed, sent a command or launched
C20_Inv ==
    error \in StatusErrors =>
        /\ pc = "error"
        /\ \A k \in Launched : k <= cur
        /\ \A c \in issued : c[1] <= cur
        /\ launched = <<>> => (issued = {} /\ \A k \in probed : k <= cur)

C20_StatusErrorsAreFatal == [](C20_Inv) /\ [][C20_Step]_vars

\* an install command returned while its unit still reports code 0: the
\* run ended with 'status unknown' and nodes are left untried
C20_Witness ==
    /\ pc = "error"
    /\ error = "ClusterInstallError: status unknown"
    /\ launched # <<>>
    /\ launched[Len(launched)] = cur
    /\ status_code = 0
    /\ cur < NumNodes(instances_dict)

\* a step of resume-discovery in which the status query after a wait was
\* answered
RequeryAnswered ==
    /\ pc = "requery"
    /\ error' # "ClusterInstallError: remote command"

\* C21: in resume-discovery, when the wait on a running unit has ended
\* without timeout the status is queried again.  Code 3 raises the fatal
\* 'failed installing' error; code 4 classifies the node by its completion
\* marker: present, the node is installed and discovery goes on (to its
\* removal with override, to the next node without); absent, the node is
\* not installed and discovery stops; any other code raises the fatal
\* 'status unknown' error.
C21_Step ==
    RequeryAnswered =>
        LET mk == MarkerOf(Node)
            flag == NodeAt(instances_dict', cur).installed
        IN
        /\ status_code' = UnitOf(Node)
        /\ status_code' = 3 <=>
              error' = "ClusterInstallError: failed installing"
        /\ status_code' \notin {3, 4} <=>
              error' = "ClusterInstallError: status unknown"
        /\ error' # "none" =>
              /\ pc' = "error"
              /\ instances_dict' = instances_dict
              /\ cur' = cur
        /\ status_code' = 4 =>
              /\ error' = "none"
              /\ flag = mk
              /\ (mk /\ ~override) => (pc' = "mark" /\ cur' = cur + 1)
              /\ (mk /\ override) => (pc' = "remove" /\ cur' = cur)
              /\ ~mk => (pc' = "after_mark" /\ cur' = cur)

\* the re-query is reached only from a wait that ended by itself
C21_Inv ==
    pc = "requery" =>
        /\ status_code # 0
        /\ status_code = UnitOf(Node)
        /\ ~Node.installed
        /\ launched = <<>>

C21_RequeryAfterWait == [](C21_Inv) /\ [][C21_Step]_vars

\* a unit found running ended with its marker: the node is installed
\* though it was not when the run began, and discovery is at the next node
C21_Witness ==
    /\ pc = "mark"
    /\ cur > 1
    /\ Installed(cur - 1)
    /\ <<NodeAt(instances_dict, cur - 1).vm,
         NodeAt(instances_dict, cur - 1).type>> \notin installed_at_start

\* the fatal errors of a run: timeout, unknown status, conflicting package,
\* failed install
FatalErrors == {"ClusterInstallError: time out",
                "ClusterInstallError: status unknown",
                "ClusterInstallError: different rpm",
                "ClusterInstallError: failed installing"}

\* C22: a fatal error aborts the whole run and nothing is rolled back: once
\* it is raised no remote command is sent to any node, no node is probed,
\* removed or launched, and the package, the units and the markers of the
\* hosts stay as they are.
C22_Step ==
    error # "none" =>
        /\ UNCHANGED <<rpm, unit, marker>>
        /\ UNCHANGED <<issued, launched, uploaded, conn_tests>>
        /\ UNCHANGED <<probed, removed, failed_removed>>
        /\ UNCHANGED <<instances_dict, staging, polls, error>>

C22_Inv == error # "none" <=> pc = "error"

C22_FatalErrorEndsTheRun == [](C22_Inv) /\ [][C22_Step]_vars

\* a resumed run: a node found installed is left as it is when a later
\* install fails
C22_Witness ==
    /\ pc = "error"
    /\ error \in FatalErrors
    /\ launched # <<>>
    /\ \E k \in NodeIds :
          /\ Installed(k)
          /\ k < cur
          /\ MarkerOf(NodeAt(instances_dict, k))
          /\ rpm[NodeAt(instances_dict, k).vm] = "match"

\* C23: generate_config writes over an output path that was there only
\* after the answer yes or y; after no or n it exits and nothing is
\* written, after any other answer it raises ClusterInstallError and
\* nothing is written, and without three-nodes and nine-nodes it raises
\* ClusterInstallError before the prompt and before anything is written.
C23_OverwriteOnlyAfterYes ==
    /\ (gen.written # "none" /\ gen.existed)
           => gen.prompted /\ Lower(gen.answer) \in {"yes", "y"}
    /\ (gen.prompted /\ gen.at # "prompt"
            /\ Lower(gen.answer) \in {"no", "n"})
           => gen.at = "exit" /\ gen.written = "none"
    /\ (gen.prompted /\ gen.at # "prompt"
            /\ Lower(gen.answer) \notin {"yes", "y", "no", "n"})
           => /\ gen.at = "error"
              /\ gen.error = "ClusterInstallError: respond"
              /\ gen.written = "none"
    /\ (~gen.three /\ ~gen.nine /\ gen.at \notin {"idle", "start"})
           => /\ gen.at = "error"
              /\ gen.error = "ClusterInstallError: specify nodes"
              /\ ~gen.prompted
              /\ gen.written = "none"
    /\ gen.written = "none"
           => gen.path = (IF gen.existed THEN gen.path ELSE "none")

C23_Witness ==
    /\ gen.at = "done"
    /\ gen.existed
    /\ gen.overwrote
    /\ gen.answer = "y"

\* the discovery loop is at a node whose host does not hold the package
ProbesAbsentPackage ==
    /\ pc = "mark"
    /\ cur <= NumNodes(instances_dict)
    /\ rpm[Node.vm] = "absent"

C24_Step ==
    /\ ProbesAbsentPackage =>
          /\ pc' \in {"after_mark", "error"}
          /\ pc' = "error" => error' = "ClusterInstallError: remote command"
          /\ probed' = probed \cup {cur}
          /\ UNCHANGED <<instances_dict, remoteV, status_code, removed,
                         failed_removed, code3_seen, marker_seen>>
    /\ pc \notin DiscoveryPcs =>
          UNCHANGED <<probed, removed, failed_removed, code3_seen>>

C24_Inv ==
    LET flat == Flat(instances_dict) IN
    /\ \A k \in probed : 1..k \subseteq probed
    /\ pc \in DiscoveryPcs => \A k \in probed : k <= cur
    /\ pc \in DiscoveryPcs \ {"mark"} =>
          /\ cur \in probed
          /\ rpm[Node.vm] # "absent"
    /\ \A k \in DOMAIN flat :
          k \notin probed =>
              /\ ~instances_dict[flat[k][1]].nodes[flat[k][2]].installed
              /\ k \notin removed \cup failed_removed
              /\ launched = <<>> => k \notin marker_seen
              /\ \A c \in code3_seen : c.node # k

\* C24: resume-discovery probes the nodes one after the other in tier then
\* node order, and at the first node whose package is absent it stops:
\* that node and every later node keep installed = FALSE, and no status
\* query, marker check or removal is made on that node or on a later one.
C24_DiscoveryStopsAtAbsentPackage == [](C24_Inv) /\ [][C24_Step]_vars

\* discovery found the first node installed and stopped at a later node,
\* not the last, whose host does not hold the package
C24_Witness ==
    /\ pc = "after_mark"
    /\ ~override
    /\ Installed(1)
    /\ \E k \in probed :
          /\ k > 1
          /\ k < NumNodes(instances_dict)
          /\ k + 1 \notin probed
          /\ rpm[NodeAt(instances_dict, k).vm] = "absent"
          /\ k \notin marker_seen

\* override: every node discovery found installed is removed before the
\* next node is probed and has installed = FALSE from then on
C25_Inv ==
    override =>
        /\ pc \in {"mark", "after_mark", "install", "report", "done"} =>
              \A k \in NodeIds : ~Installed(k)
        /\ (pc \in DiscoveryPcs \cup {"after_mark"}) =>
              \A k \in marker_seen :
                  \/ k \in removed /\ ~Installed(k) /\ k < cur
                  \/ k = cur /\ pc = "remove"

\* override: the install loop, at a node that discovery removed, launches
\* its install unless a remote command fails
C25_Step ==
    (override /\ pc = "install" /\ cur \in removed) =>
        \/ launched' = Append(launched, cur)
        \/ error' = "ClusterInstallError: remote command"

\* C25, as the specification states it: with override every node that
\* discovery finds installed is removed before the next node is probed,
\* its installed flag is reset and discovery goes on; when discovery ends
\* no node has installed = TRUE, and the install loop of the same run
\* launches every node that was found installed.
C25_OverrideRemovesAndRelaunches == [](C25_Inv) /\ [][C25_Step]_vars

\* /etc/cloudify/.installed is a directory on host v: some tier's
\* completion marker is in it
InstalledDirOn(mk, v) == \E r \in RoleSet : mk[v][r]

\* C26, as the specification states it: during the override removal of a
\* node the package is removed from the node's host only if the marker
\* directory does not exist on that same host, whatever the filesystem of
\* any other machine holds.
C26_PackageRemovedOnlyWithoutMarkerDirOnHost ==
    [][(pc = "remove" /\ rpm'[Node.vm] # rpm[Node.vm])
          => ~InstalledDirOn(marker', Node.vm)]_vars

C27_Step ==
    /\ pc \in {"after_mark", "install", "report", "done"} =>
          instances_dict' = instances_dict
    /\ pc \in DiscoveryPcs \cup {"previous_installation"} =>
          /\ \/ instances_dict' = instances_dict
             \/ \E v \in BOOLEAN :
                   instances_dict' = SetInstalled(instances_dict, cur, v)
          /\ instances_dict' # instances_dict =>
                pc \in {"status", "requery", "remove"}

\* C27: once the nodes are constructed their installed flag is written
\* only by resume-discovery and by the override removal it calls, at the
\* node being classified; the install-and-verify loop and the report leave
\* every flag as it is, and no other field of a node ever changes.
C27_InstalledWrittenOnlyByDiscovery == [][C27_Step]_vars

\* the install loop has launched a node of a cluster in which discovery
\* left another node installed = TRUE, and the run is over
C27_Witness ==
    /\ pc = "done"
    /\ launched # <<>>
    /\ \E k \in NodeIds : Installed(k) /\ k \notin Launched
    /\ \E k \in Launched : ~Installed(k) /\ k \in marker_seen

\* the conditions install() raises on lead to the error position, apart
\* from the two that are remedied: code 3 at the first status query of
\* discovery (the failed installation is removed and discovery returns)
\* and a node found installed under override (it is removed and discovery
\* goes on)
C28_Step ==
    /\ error' # "none" => pc' = "error"
    /\ (pc = "mark" /\ cur <= NumNodes(instances_dict) /\ error' = "none")
          => (rpm[Node.vm] # "differ" \/ override)
    /\ (pc = "status" /\ error' = "none") =>
          /\ unit[Node.vm][Node.type] \in {0, 3, 4}
          /\ unit[Node.vm][Node.type] = 3 => pc' = "remove_failed"
    /\ (pc = "remove_failed" /\ error' = "none") =>
          pc' = "after_mark" /\ cur \in failed_removed'
    /\ (pc = "remove" /\ error' = "none") =>
          pc' = "mark" /\ override /\ cur \in removed'
    /\ (pc = "wait" /\ error' = "none" /\ pc' # "wait") =>
          retry_count <= WaitLimit
    /\ (pc = "requery" /\ error' = "none") => unit[Node.vm][Node.type] = 4
    /\ (pc = "install" /\ launched' # launched /\ error' = "none") =>
          status_code' = 4

C28_Inv ==
    /\ error # "none" <=> pc = "error"
    /\ pc \in {"report", "done"} =>
          /\ \A c \in code3_seen : c.at = "first" /\ c.node \in failed_removed
          /\ removed # {} => override
          /\ \A i \in DOMAIN launched :
                UnitOf(NodeAt(instances_dict, launched[i])) = 4

\* C28: the only failures install() gets over are a failed prior
\* installation met at the first status query of discovery and an
\* installed node under override, both by removal; every other failing
\* package check, status check or remote command ends the run at the error
\* and the success report is not reached.
C28_OnlyRemediationsAreRecovered == [](C28_Inv) /\ [][C28_Step]_vars

\* a run that removed an installed node under override and then a failed
\* prior installation has reached the success report
C28_Witness ==
    /\ pc = "done"
    /\ \E c \in code3_seen : c.at = "first" /\ c.node \in Launched
    /\ override
    /\ removed # {}
    /\ removed \subseteq Launched

OpenConnections == {i \in DOMAIN connections : connections[i] = "open"}

\* C29: every call of VM.test_connection and VM.run_command constructs a
\* connection of its own and has closed it when it returns or raises, for
\* every sequence of calls: between calls no connection is open, and at
\* most one, that of the call being made, is open at any time.
C29_ConnectionPerCommandAlwaysClosed ==
    /\ Len(connections) = call.n
    /\ call.at # "idle" => call.conn = call.n
    /\ call.at = "idle" => OpenConnections = {}
    /\ OpenConnections \subseteq {call.conn}
    /\ Cardinality(OpenConnections) <= 1

\* a second call, of run_command, opened its connection for the test and
\* again for the command, the command failed, and the call has raised
C29_Witness ==
    /\ call.at = "idle"
    /\ call.op = "run_command"
    /\ call.n = 2
    /\ call.opens = 2
    /\ call.result = "ClusterInstallError"
    /\ connections = <<"closed", "closed">>

\* the number of entries of errors_list that say the config.yaml file must
\* be provided for all instances or none of them
AllOrNoneErrors ==
    Cardinality({i \in DOMAIN errors_list :
                    errors_list[i].kind = "config for all or none"})

\* C30, as the specification states it: once the document is validated the
\* error list holds the all-or-none error exactly once when some but not
\* all instances (or roles of the three instances) have a config path, in
\* whatever order they are declared, and not at all when all or none have.
C30_AllOrNoneErrorExactlyOnceWhenMixed ==
    LET items == ConfigPathItems(config.existing_vms, 1)
        given == {i \in DOMAIN items : items[i].path # ""}
    IN  (pc \in {"validated", "error"}
           /\ error # "ClusterInstallError: Yum is not present")
        => AllOrNoneErrors = (IF given # {} /\ given # DOMAIN items
                              THEN 1 ELSE 0)

\* C31, as the specification states it: the timeout error of the wait loop
\* is raised only while the unit is still running; a poll, the last
\* permitted one included, that returns a status code other than 0 makes
\* the wait return without the timeout.
C31_TimeoutOnlyWhileUnitIsRunning ==
    error = "ClusterInstallError: time out" =>
        /\ status_code = 0
        /\ unit[Node.vm][Node.type] = 0

\* C32: without override the nodes with installed = TRUE are, during and
\* after resume-discovery, a prefix of the nodes in tier then node order:
\* every node before an installed node is installed.
C32_InstalledNodesFormAPrefix ==
    LET flat == Flat(instances_dict)
        flag(k) == instances_dict[flat[k][1]].nodes[flat[k][2]].installed
    IN  ~override =>
           \A k \in DOMAIN flat : flag(k) => \A j \in 1..(k - 1) : flag(j)

\* discovery without override has ended at the third node of a longer
\* sequence, the two before it installed
C32_Witness ==
    /\ ~override
    /\ pc = "after_mark"
    /\ Installed(1)
    /\ Installed(2)
    /\ ~Installed(3)
    /\ NumNodes(instances_dict) > 3
    /\ 3 \in probed

\* the staging directory is on the host of the node the loop is at: put
\* there by this run, or the host is the machine the tool runs on, or, in
\* a later round of the three-instance mode, put there by the run that
\* installed the first-tier node of that host
StagingOnHost(up) ==
    \/ Node.vm \in up
    \/ Node.vm = local_host
    \/ /\ UsingThreeNodes(config)
       /\ TierOf(instances_dict, cur) > 1
       /\ \E j \in DOMAIN instances_dict[1].nodes :
             /\ instances_dict[1].nodes[j].vm = Node.vm
             /\ instances_dict[1].nodes[j].installed

C33_StagedAtLaunch ==
    [][(pc = "install" /\ launched' # launched)
          => StagingOnHost(uploaded')]_vars

\* C33, as the specification states it: whenever the install command of a
\* node is launched, the package is present on the node's host and the
\* staging directory has been put on that host, in both modes, in fresh,
\* resumed and override runs.
C33_PackageAndStagingAtLaunch ==
    [][(pc = "install" /\ launched' # launched)
          => /\ rpm'[Node.vm] # "absent"
             /\ StagingOnHost(uploaded')]_vars

\* C34, as the specification states it: the connection strings and the
\* successful-installation message are reported only if the completion
\* marker of every node of every tier was seen, in resume-discovery or in
\* the verification that follows the node's install in this run.
C34_ReportOnlyAfterEveryMarkerSeen ==
    pc \in {"report", "done"} => \A k \in NodeIds : k \in marker_seen

\* C35, as the specification states it: in every run that has launched an
\* install the credentials in the credentials file are the credentials in
\* the staged config files the installs of the run use, resumed runs
\* without override and blank credentials included.
C35_CredentialsFileMatchesStagedConfigs ==
    launched # <<>> => credentials_file = StagedCredentials

\* C36, as the specification states it: run(command, retries,
\* ignore_failures) executes the command at most retries + 1 times, does
\* not execute it again after an attempt that exits 0, and with
\* ignore_failures = TRUE never raises ProcessExecutionError, for every
\* retries >= 0.
C36_RunRetriesAndIgnoresFailures ==
    /\ Len(local_run.codes) <= local_run.given.retries + 1
    /\ \A i \in 1..(Len(local_run.codes) - 1) : local_run.codes[i] # 0
    /\ local_run.given.ignore_failures
          => local_run.result # "ProcessExecutionError"

====
